---- MODULE Spec2Model ----
(***************************************************************************)
(* The hand-written tableau simplex of exercise 6a                          *)
(* (HW1_LinCombOpt_2025/LinProg_SourceCode/ex6/lin_prog_code_HW1_6a.py) and *)
(* the breadth-first exploration of its adjacency graph of exercise 6b      *)
(* (.../ex6/lin_prog_code_HW1_6b.py), and the branch-and-bound search of    *)
(* HW2 exercise 5                                                           *)
(* (HW2_LinCombOpt_2025/LinProg_SourceCode/lin_prog_code_HW2_5.py).         *)
(*                                                                          *)
(* Variables x1..xn are the column numbers 1..n (the script's               *)
(* var_indices[x_j] is j-1); rows and list positions are 1-based here, so   *)
(* the script's list index k is position k+1 of the model.                  *)
(* The script works in sympy's exact rational arithmetic: a rational is the *)
(* reduced pair <<p, q>> with q > 0, and float('inf') is <<1, 0>>.          *)
(***************************************************************************)
EXTENDS Integers, Sequences, FiniteSets, TLC

VARIABLES A, b, c, basic_vars, nonbasic_vars, iteration, pc, outcome,
          xB_values, z_row, Z_val, printed, pivots, full_solution, reported,
          queue, visited, node_id_map, node_count, z_values, edge_labels,
          best_node,
          best_Z_int, best_x_int_solution, node_id_counter, max_depth,
          calls, frame, nodes,
          working_depots, working_dests, original_dests, all_assignments,
          unsatisfied_dests, id_mapping, assignments, solve_calls, drones

\* the state only the exercise-6a script has
vars6a == <<iteration, xB_values, z_row, Z_val, printed, pivots,
            full_solution, reported>>

\* the state only the exercise-6b script has
vars6b == <<queue, visited, node_id_map, node_count, z_values, edge_labels,
            best_node>>

\* the state only the branch-and-bound script of HW2 exercise 5 has
varsBB == <<best_Z_int, best_x_int_solution, node_id_counter, max_depth,
            calls, frame, nodes>>

\* the state only the iterative solve loop of myProject/iterative_main.py
\* has (it also uses iteration)
varsIM == <<working_depots, working_dests, original_dests, all_assignments,
            unsatisfied_dests, id_mapping, assignments, solve_calls, drones>>

vars == <<A, b, c, basic_vars, nonbasic_vars, iteration, pc, outcome,
          xB_values, z_row, Z_val, printed, pivots, full_solution, reported,
          queue, visited, node_id_map, node_count, z_values, edge_labels,
          best_node,
          best_Z_int, best_x_int_solution, node_id_counter, max_depth,
          calls, frame, nodes,
          working_depots, working_dests, original_dests, all_assignments,
          unsatisfied_dests, id_mapping, assignments, solve_calls, drones>>

-----------------------------------------------------------------------------
(* Bounds of the model. *)

\* pivots of one run that are followed (the script's while True has no cap)
MaxIter == 7
\* largest entry of the structural columns of A in the generated instances
MaxCoef == 1

-----------------------------------------------------------------------------
(* Exact rational arithmetic (sympy Rational). *)

Abs(x) == IF x < 0 THEN -x ELSE x

RECURSIVE Gcd(_, _)
Gcd(x, y) == IF y = 0 THEN x ELSE Gcd(y, x % y)

\* the reduced fraction p/q, q # 0
Rat(p, q) ==
    LET g == Gcd(Abs(p), Abs(q))
        s == IF q < 0 THEN -1 ELSE 1
    IN  <<(s * p) \div g, (s * q) \div g>>

RInt(k) == <<k, 1>>
Inf == <<1, 0>>

RAdd(x, y) == Rat(x[1] * y[2] + y[1] * x[2], x[2] * y[2])
RNeg(x) == <<-x[1], x[2]>>
RSub(x, y) == RAdd(x, RNeg(y))
RMul(x, y) == Rat(x[1] * y[1], x[2] * y[2])
\* x / y for y > 0
RDiv(x, y) == Rat(x[1] * y[2], x[2] * y[1])
\* comparisons; they also order Inf above every rational
RLt(x, y) == x[1] * y[2] < y[1] * x[2]
RLe(x, y) == x[1] * y[2] <= y[1] * x[2]
RPos(x) == x[1] > 0
RNegative(x) == x[1] < 0

RECURSIVE RSum(_)
RSum(s) == IF s = <<>> THEN RInt(0) ELSE RAdd(Head(s), RSum(Tail(s)))

\* the dot product of two rational vectors of the same length
RDot(u, v) == RSum([k \in 1..Len(u) |-> RMul(u[k], v[k])])

-----------------------------------------------------------------------------
(* Integer matrices: a sequence of rows. *)

\* s without its k-th element
Drop(s, k) == [i \in 1..(Len(s) - 1) |-> IF i < k THEN s[i] ELSE s[i + 1]]

\* M without row i and column j
Minor(M, i, j) == [r \in 1..(Len(M) - 1) |-> Drop(Drop(M, i)[r], j)]

RECURSIVE Det(_)
Det(M) ==
    IF Len(M) = 0 THEN 1
    ELSE LET Term(j) == (IF j % 2 = 1 THEN 1 ELSE -1) * M[1][j] * Det(Minor(M, 1, j))
             RECURSIVE Sum(_)
             Sum(j) == IF j = 0 THEN 0 ELSE Term(j) + Sum(j - 1)
         IN  Sum(Len(M))

Cofactor(M, i, j) == (IF (i + j) % 2 = 0 THEN 1 ELSE -1) * Det(Minor(M, i, j))

\* A[:, j] as a rational vector
Column(M, j) == [i \in 1..Len(M) |-> RInt(M[i][j])]

\* A[:, [var_indices[v] for v in basic_vars]]
BasisMatrix(M, bv) == [i \in 1..Len(M) |-> [k \in 1..Len(bv) |-> M[i][bv[k]]]]

\* Matrix.inv() raises NonInvertibleMatrixError on a singular matrix
Invertible(B) == Det(B) # 0

\* the cofactor matrix divided by the determinant, without the transposition
Inverse_NoTranspose(B) ==
    LET dt == Det(B)
    IN  [i \in 1..Len(B) |-> [j \in 1..Len(B) |-> Rat(Cofactor(B, i, j), dt)]]

\* Matrix.inv(): the exact inverse, a matrix of rationals
Inverse(B) ==
    LET dt == Det(B)
    IN  [i \in 1..Len(B) |-> [j \in 1..Len(B) |-> Rat(Cofactor(B, j, i), dt)]]

\* a rational matrix times a rational vector
MatVec(M, v) == [i \in 1..Len(M) |-> RDot(M[i], v)]

RVec(v) == [i \in 1..Len(v) |-> RInt(v[i])]

Range(s) == {s[i] : i \in 1..Len(s)}

-----------------------------------------------------------------------------
(* The quantities one pass of the while loop computes; Binv is the inverse  *)
(* B_inv of the basis matrix of the pass.                                    *)

\* xB_values = B_inv * b
XB(Binv, rhs) == MatVec(Binv, RVec(rhs))

\* c_B = Matrix([c[var_indices[v]] for v in basic_vars])
C_B(cost, bv) == [k \in 1..Len(bv) |-> RInt(cost[bv[k]])]

\* d = B_inv * A[:, var_indices[v]]
Direction(Binv, M, v) == MatVec(Binv, Column(M, v))

\* zj = c[var_indices[v]] - (c_B.T * B_inv * Aj)[0, 0]
ReducedCost(Binv, M, cost, bv, v) ==
    RSub(RInt(cost[v]), RDot(C_B(cost, bv), Direction(Binv, M, v)))

\* z_row: 0 for a basic variable, the reduced cost for every other one
ZRow(Binv, M, cost, bv) ==
    [v \in 1..Len(cost) |->
        IF v \in Range(bv) THEN RInt(0) ELSE ReducedCost(Binv, M, cost, bv, v)]

\* Z_val = -(c_B.T * xB_values)[0, 0]
ZVal(cost, bv, xB) == RNeg(RDot(C_B(cost, bv), xB))

\* the feasibility test left out
AnyNegative_Off(xB) == FALSE

\* any(val < 0 for val in xB_values)
AnyNegative(xB) == \E i \in 1..Len(xB) : RNegative(xB[i])

\* any(...) written for all(...)
AllNonPositive_Any(z) == \E v \in 1..Len(z) : ~RPos(z[v])

\* all(z <= 0 for z in z_row)
AllNonPositive(z) == \A v \in 1..Len(z) : ~RPos(z[v])

\* the most positive reduced cost instead of the first positive one
EnteringIdx_Largest(z) ==
    CHOOSE i \in 1..Len(z) :
        /\ \A k \in 1..Len(z) : RLe(z[k], z[i])
        /\ \A k \in 1..(i - 1) : RLt(z[k], z[i])

\* the scan "for i in range(len(z_row)): if z_row[i] > 0: entering_idx = i; break"
EnteringIdx(z) ==
    CHOOSE i \in 1..Len(z) : RPos(z[i]) /\ \A k \in 1..(i - 1) : ~RPos(z[k])

\* ratios: xB_values[i] / d[i] where d[i] > 0, float('inf') elsewhere
Ratios(xB, d) ==
    [i \in 1..Len(d) |-> IF RPos(d[i]) THEN RDiv(xB[i], d[i]) ELSE Inf]

\* the unboundedness test left out
AllInf_Off(ratios) == FALSE

\* all(r == float('inf') for r in ratios)
AllInf(ratios) == \A i \in 1..Len(ratios) : ratios[i] = Inf

\* the largest finite ratio instead of the smallest
MinRatio_Largest(ratios) ==
    CHOOSE r \in Range(ratios) :
        r # Inf /\ \A i \in 1..Len(ratios) : ratios[i] = Inf \/ RLe(ratios[i], r)

\* min(ratios)
MinRatio(ratios) ==
    CHOOSE r \in Range(ratios) : \A i \in 1..Len(ratios) : RLe(r, ratios[i])

\* the last row that attains the minimum instead of the first
ExitingIdx_Last(ratios) ==
    LET min_ratio == MinRatio(ratios)
    IN  CHOOSE i \in 1..Len(ratios) :
            /\ ratios[i] = min_ratio
            /\ \A k \in (i + 1)..Len(ratios) : ratios[k] # min_ratio

\* ratios.index(min_ratio): the first row that attains the minimum
ExitingIdx(ratios) ==
    LET min_ratio == MinRatio(ratios)
    IN  CHOOSE i \in 1..Len(ratios) :
            /\ ratios[i] = min_ratio
            /\ \A k \in 1..(i - 1) : ratios[k] # min_ratio

\* One pass of the loop body from the top to the statement that ends it:
\* "how" names that statement, the other fields are the locals assigned on
\* the way.
LoopPass(M, rhs, cost, bv, nbv) ==
    LET B == BasisMatrix(M, bv)
    IN  IF ~Invertible(B) THEN [how |-> "inv_raises"] ELSE
    LET Binv == Inverse(B)
        xB == XB(Binv, rhs)
    IN  IF AnyNegative(xB) THEN [how |-> "return_infeasible", xB_values |-> xB] ELSE
    LET z == ZRow(Binv, M, cost, bv)
        tab == [xB_values |-> xB, z_row |-> z, Z_val |-> ZVal(cost, bv, xB)]
    IN  IF AllNonPositive(z) THEN [how |-> "break"] @@ tab ELSE
    LET entering_idx == EnteringIdx(z)
    IN  IF entering_idx > Len(nbv)
        THEN [how |-> "index_raises", entering_idx |-> entering_idx] @@ tab ELSE
    LET entering_var == nbv[entering_idx]
        d == Direction(Binv, M, entering_var)
        ratios == Ratios(xB, d)
        ent == [entering_idx |-> entering_idx, entering_var |-> entering_var,
                d |-> d, ratios |-> ratios]
    IN  IF AllInf(ratios) THEN [how |-> "return_unbounded"] @@ ent @@ tab ELSE
    LET exiting_idx == ExitingIdx(ratios)
    IN  [how |-> "swap", min_ratio |-> MinRatio(ratios),
         exiting_idx |-> exiting_idx, exiting_var |-> bv[exiting_idx]] @@ ent @@ tab

-----------------------------------------------------------------------------
(* The problem instances the loop is run on. *)

\* the instance written in main(): A, b, c and the initial lists
HardA == << <<1, 2, 4, -1, 1, 0, 0>>,
            <<2, 3, -1, 1, 0, 1, 0>>,
            <<1, 0, 1, 1, 0, 0, 1>> >>
Hardb == <<6, 12, 2>>
Hardc == <<2, 1, 6, -4, 0, 0, 0>>
HardBasic == <<5, 6, 7>>
HardNonbasic == <<1, 2, 3, 4>>

Coef == (-1)..MaxCoef

\* generated instances: two constraints, the columns of x1..x3 drawn from
\* Coef, and the two columns of the initial basis x4, x5
FamColumns == { << <<p, q, r>>, <<s, t, u>> >> :
                    p \in Coef, q \in Coef, r \in Coef, s \in Coef, t \in Coef, u \in Coef }
\* basis columns: the slack identity, an invertible block, a singular block
SlackBlock == << <<1, 0>>, <<0, 1>> >>
LowerBlock == << <<1, 0>>, <<1, 1>> >>
SingularBlock == << <<1, 0>>, <<1, 0>> >>
\* the basis columns with the right-hand sides they are run with
FamBasisAndb == { <<SlackBlock, <<1, 0>>>>, <<SlackBlock, <<1, 1>>>>,
                  <<SlackBlock, <<-1, 1>>>>, <<LowerBlock, <<1, 0>>>>,
                  <<SingularBlock, <<1, 1>>>> }
Famc == <<1, 2, 1, 0, 0>>
\* the initial lists: the last m variables basic, the first n-m non-basic,
\* as main() starts
FamBasic == <<4, 5>>
FamNonbasic == <<1, 2, 3>>

-----------------------------------------------------------------------------
(* The run of main(): pc is "loop" at the top of the while loop, "final"    *)
(* after the break, "exit" after a return or an exception inside the loop,  *)
(* "done" after the final solution is printed.                               *)
(* printed is the sequence of print_tableau calls, pivots the sequence of   *)
(* minimum-ratio tables printed, one per swap.                               *)

Unset == <<>>

\* the iterative solve loop is not the one that runs
IdleIM ==
    /\ working_depots = Unset
    /\ working_dests = Unset
    /\ original_dests = Unset
    /\ all_assignments = Unset
    /\ unsatisfied_dests = Unset
    /\ id_mapping = Unset
    /\ assignments = Unset
    /\ solve_calls = 0
    /\ drones = Unset

\* the branch-and-bound script is not the one that runs
IdleBB ==
    /\ best_Z_int = Unset
    /\ best_x_int_solution = Unset
    /\ node_id_counter = 0
    /\ max_depth = 0
    /\ calls = <<>>
    /\ frame = Unset
    /\ nodes = <<>>

InitRun(bv, nbv) ==
    /\ basic_vars = bv
    /\ nonbasic_vars = nbv
    /\ iteration = 0
    /\ pc = "loop"
    /\ outcome = "none"
    /\ xB_values = Unset
    /\ z_row = Unset
    /\ Z_val = Unset
    /\ printed = <<>>
    /\ pivots = <<>>
    /\ full_solution = Unset
    /\ reported = Unset
    /\ queue = <<>>
    /\ visited = {}
    /\ node_id_map = <<>>
    /\ node_count = 0
    /\ z_values = <<>>
    /\ edge_labels = <<>>
    /\ best_node = Unset
    /\ IdleBB
    /\ IdleIM

Init ==
    \/ /\ A = HardA /\ b = Hardb /\ c = Hardc
       /\ InitRun(HardBasic, HardNonbasic)
    \/ /\ \E cols \in FamColumns : \E bb \in FamBasisAndb :
              /\ A = [i \in 1..2 |-> cols[i] \o bb[1][i]]
              /\ b = bb[2]
       /\ c = Famc
       /\ InitRun(FamBasic, FamNonbasic)

\* the pass of the loop body that starts in the current state
ThisPass == LoopPass(A, b, c, basic_vars, nonbasic_vars)

\* what a pass assigns up to print_tableau
Tableau(p) ==
    /\ xB_values' = p.xB_values
    /\ z_row' = p.z_row
    /\ Z_val' = p.Z_val
    /\ printed' = Append(printed, [iteration |-> iteration, basic_vars |-> basic_vars,
                                   xB_values |-> p.xB_values, z_row |-> p.z_row,
                                   Z_val |-> p.Z_val])

\* B.inv() raises NonInvertibleMatrixError: the exception leaves main()
SingularBasis ==
    /\ pc = "loop"
    /\ LET p == ThisPass
       IN  /\ p.how = "inv_raises"
           /\ pc' = "exit"
           /\ outcome' = "singular_basis_error"
    /\ UNCHANGED <<A, b, c, basic_vars, nonbasic_vars, iteration,
                   xB_values, z_row, Z_val, printed, pivots>>
    /\ UNCHANGED <<full_solution, reported>>
    /\ UNCHANGED vars6b
    /\ UNCHANGED varsBB
    /\ UNCHANGED varsIM

\* some component of B_inv * b is negative: message and return
InfeasibleBasis ==
    /\ pc = "loop"
    /\ LET p == ThisPass
       IN  /\ p.how = "return_infeasible"
           /\ xB_values' = p.xB_values
           /\ pc' = "exit"
           /\ outcome' = "infeasible_initial_basis"
    /\ UNCHANGED <<A, b, c, basic_vars, nonbasic_vars, iteration,
                   z_row, Z_val, printed, pivots>>
    /\ UNCHANGED <<full_solution, reported>>
    /\ UNCHANGED vars6b
    /\ UNCHANGED varsBB
    /\ UNCHANGED varsIM

\* all(z <= 0 for z in z_row): break
Optimal ==
    /\ pc = "loop"
    /\ LET p == ThisPass
       IN  /\ p.how = "break"
           /\ Tableau(p)
           /\ pc' = "final"
           /\ outcome' = "optimal"
    /\ UNCHANGED <<A, b, c, basic_vars, nonbasic_vars, iteration, pivots>>
    /\ UNCHANGED <<full_solution, reported>>
    /\ UNCHANGED vars6b
    /\ UNCHANGED varsBB
    /\ UNCHANGED varsIM

\* nonbasic_vars[entering_idx] with entering_idx >= len(nonbasic_vars):
\* IndexError leaves main()
EnteringIndexError ==
    /\ pc = "loop"
    /\ LET p == ThisPass
       IN  /\ p.how = "index_raises"
           /\ Tableau(p)
           /\ pc' = "exit"
           /\ outcome' = "index_error"
    /\ UNCHANGED <<A, b, c, basic_vars, nonbasic_vars, iteration, pivots>>
    /\ UNCHANGED <<full_solution, reported>>
    /\ UNCHANGED vars6b
    /\ UNCHANGED varsBB
    /\ UNCHANGED varsIM

\* every ratio is inf: message and return
Unbounded ==
    /\ pc = "loop"
    /\ LET p == ThisPass
       IN  /\ p.how = "return_unbounded"
           /\ Tableau(p)
           /\ pc' = "exit"
           /\ outcome' = "unbounded"
    /\ UNCHANGED <<A, b, c, basic_vars, nonbasic_vars, iteration, pivots>>
    /\ UNCHANGED <<full_solution, reported>>
    /\ UNCHANGED vars6b
    /\ UNCHANGED varsBB
    /\ UNCHANGED varsIM

\* the leaving variable removed and the entering one appended
SwapBasic_Append(bv, exiting_idx, entering_var) ==
    Append(Drop(bv, exiting_idx), entering_var)

\* basic_vars[exiting_idx] = entering_var
SwapBasic(bv, exiting_idx, entering_var) ==
    [bv EXCEPT ![exiting_idx] = entering_var]

\* the non-basic list left as it was
SwapNonbasic_Keep(nbv, entering_idx, exiting_var) == nbv

\* the entering variable removed and the leaving one appended
SwapNonbasic_Append(nbv, entering_idx, exiting_var) ==
    [i \in 1..Len(nbv) |->
        IF i < entering_idx THEN nbv[i]
        ELSE IF i < Len(nbv) THEN nbv[i + 1] ELSE exiting_var]

\* nonbasic_vars[entering_idx] = exiting_var
SwapNonbasic(nbv, entering_idx, exiting_var) ==
    [nbv EXCEPT ![entering_idx] = exiting_var]

\* the swap of the entering and the leaving variable, iteration += 1
Pivot ==
    /\ pc = "loop"
    /\ iteration < MaxIter
    /\ LET p == ThisPass
       IN  /\ p.how = "swap"
           /\ Tableau(p)
           /\ basic_vars' = SwapBasic(basic_vars, p.exiting_idx, p.entering_var)
           /\ nonbasic_vars' = SwapNonbasic(nonbasic_vars, p.entering_idx, p.exiting_var)
           /\ iteration' = iteration + 1
           /\ pivots' = Append(pivots, [entering_idx |-> p.entering_idx,
                                        entering_var |-> p.entering_var,
                                        exiting_idx |-> p.exiting_idx,
                                        exiting_var |-> p.exiting_var,
                                        d |-> p.d, min_ratio |-> p.min_ratio])
    /\ UNCHANGED <<A, b, c, pc, outcome>>
    /\ UNCHANGED <<full_solution, reported>>
    /\ UNCHANGED vars6b
    /\ UNCHANGED varsBB
    /\ UNCHANGED varsIM

\* float(x) of an exact rational x: the double nearest to x, written as the
\* rational it is nearest to
Float(x) == [near |-> x]

\* sum(c[i] * full_solution[i] for i in range(len(all_vars))): the double
\* nearest to the exact sum of the products
FloatDot(cost, fs) ==
    [near |-> RDot(RVec(cost), [v \in 1..Len(fs) |-> fs[v].near])]

\* nsimplify(val): the rational the double is nearest to
Nsimplify(f) == f.near

\* full_solution[i] = float(xB_values[i]): the row index used as the column
FullSolution_RowIndex(bv, xB, n) ==
    [v \in 1..n |-> IF v <= Len(bv) THEN Float(xB[v]) ELSE Float(RInt(0))]

\* full_solution = [0.0] * len(all_vars), then for every row i
\* full_solution[var_indices[var]] = float(xB_values[i])
FullSolution(bv, xB, n) ==
    LET RECURSIVE Rows(_)
        Rows(i) == IF i = 0 THEN [v \in 1..n |-> Float(RInt(0))]
                   ELSE [Rows(i - 1) EXCEPT ![bv[i]] = Float(xB[i])]
    IN  Rows(Len(bv))

\* the statements after the loop: full_solution, Z_val as c * x, and the
\* line printed with nsimplify of every value
FinalSolution ==
    /\ pc = "final"
    /\ LET fs == FullSolution(basic_vars, xB_values, Len(c))
           Z == FloatDot(c, fs)
       IN  /\ full_solution' = fs
           /\ Z_val' = Z
           /\ reported' = [x |-> [v \in 1..Len(fs) |-> Nsimplify(fs[v])],
                           Z |-> Nsimplify(Z)]
    /\ pc' = "done"
    /\ UNCHANGED <<A, b, c, basic_vars, nonbasic_vars, iteration, outcome,
                   xB_values, z_row, printed, pivots>>
    /\ UNCHANGED vars6b
    /\ UNCHANGED varsBB
    /\ UNCHANGED varsIM

Next ==
    \/ SingularBasis
    \/ InfeasibleBasis
    \/ Optimal
    \/ EnteringIndexError
    \/ Unbounded
    \/ Pivot
    \/ FinalSolution

Spec == Init /\ [][Next]_vars

-----------------------------------------------------------------------------
(* The breadth-first exploration of exercise 6b.  A basis set (basis_key,   *)
(* frozenset(basic_vars)) is the set of the variables of the basis; node    *)
(* "v<k>" is the number k; the dict z_values is the sequence of its         *)
(* <<key, value>> items in insertion order; edge_labels maps an edge        *)
(* <<current_node, target_node>> to <<entering_var, exiting_var>>.          *)
(* pc is "bfs" at the top of the while loop, "draw" after best_node is      *)
(* found, "exit" after an exception at module level.                        *)

\* 1 / 1e-8, the tolerance of the tie test
TolDen == 100000000

\* abs(r - min_ratio) < 1e-8, min_ratio finite; inf - min_ratio is inf
WithinTol(r, min_ratio) ==
    /\ r # Inf
    /\ LET df == RSub(r, min_ratio)
       IN  Abs(df[1]) <= (df[2] - 1) \div TolDen

\* Z_val = float((c_B.T * xB)[0]): the value is kept as the rational that
\* the float is the nearest double of
ZValB(cost, bv, xB) == RDot(C_B(cost, bv), xB)

\* the try block passes: B.inv() does not raise and no component of
\* B_inv * b is negative
Accepted(M, rhs, bv) ==
    LET B == BasisMatrix(M, bv)
    IN  Invertible(B) /\ ~AnyNegative(XB(Inverse(B), rhs))

\* list.index(x): the first position of x
Index(s, x) == CHOOSE i \in 1..Len(s) : s[i] = x /\ \A k \in 1..(i - 1) : s[k] # x

\* the neighbouring bases one entering variable yields, in row order: a row
\* within the tolerance of the minimum ratio whose new basis passes the try
\* block
RowCandidates(Binv, M, rhs, cost, bv, nbv, xB, entering_var) ==
    LET d == Direction(Binv, M, entering_var)
        ratios == Ratios(xB, d)
    IN  IF AllInf(ratios) THEN <<>> ELSE
        LET min_ratio == MinRatio(ratios)
            NewBasic(i) == [bv EXCEPT ![i] = entering_var]
            Kept(i) == /\ WithinTol(ratios[i], min_ratio)
                       /\ Accepted(M, rhs, NewBasic(i))
            Cand(i) ==
                [entering_var |-> entering_var, exiting_var |-> bv[i],
                 new_basic |-> NewBasic(i),
                 new_nonbasic |-> [nbv EXCEPT ![Index(nbv, entering_var)] = bv[i]]]
            RECURSIVE From(_)
            From(i) == IF i > Len(ratios) THEN <<>>
                       ELSE (IF Kept(i) THEN <<Cand(i)>> ELSE <<>>) \o From(i + 1)
        IN  From(1)

\* the neighbours of a basis in the order the two nested loops reach them:
\* every variable with a positive z_row entry, in all_vars order
Candidates(Binv, M, rhs, cost, bv, nbv, xB, z) ==
    LET RECURSIVE From(_)
        From(e) ==
            IF e > Len(z) THEN <<>>
            ELSE (IF RPos(z[e]) /\ e \notin Range(bv)
                  THEN RowCandidates(Binv, M, rhs, cost, bv, nbv, xB, e)
                  ELSE <<>>) \o From(e + 1)
    IN  From(1)

\* The body of the while loop for a dequeued basis that is not in visited,
\* from B = A[:, ...] to the statement that ends it.
BfsPass(M, rhs, cost, bv, nbv) ==
    LET B == BasisMatrix(M, bv)
    IN  IF ~Invertible(B) THEN [how |-> "except_continue"] ELSE
    LET Binv == Inverse(B)
        xB == XB(Binv, rhs)
    IN  IF AnyNegative(xB) THEN [how |-> "infeasible_continue", xB |-> xB] ELSE
    LET z == ZRow(Binv, M, cost, bv)
        node == [xB |-> xB, z_row |-> z, Z_val |-> ZValB(cost, bv, xB)]
    IN  IF AllNonPositive(z) THEN [how |-> "optimal_continue"] @@ node
        ELSE [how |-> "expanded",
              candidates |-> Candidates(Binv, M, rhs, cost, bv, nbv, xB, z)] @@ node

\* the name assigned without the test "key not in node_id_map"
WithNode_Always(g, key) ==
    [g EXCEPT !.node_id_map = (key :> g.node_count) @@ g.node_id_map,
              !.node_count = g.node_count + 1]

\* "if key not in node_id_map: node_id_map[key] = f'v{node_count}'; ...;
\* node_count += 1" on the graph state g
WithNode(g, key) ==
    IF key \in DOMAIN g.node_id_map THEN g
    ELSE [g EXCEPT !.node_id_map = (key :> g.node_count) @@ g.node_id_map,
                   !.node_count = g.node_count + 1]

\* one accepted neighbour: its node, the edge with its label, queue.append
AddCandidate(g, current_node, cand) ==
    LET g1 == WithNode(g, Range(cand.new_basic))
        target_node == g1.node_id_map[Range(cand.new_basic)]
        edge == <<current_node, target_node>>
    IN  [g1 EXCEPT
            !.edge_labels = (edge :> <<cand.entering_var, cand.exiting_var>>)
                                @@ g1.edge_labels,
            !.queue = Append(g1.queue, <<cand.new_basic, cand.new_nonbasic>>)]

RECURSIVE AddCandidates(_, _, _)
AddCandidates(g, current_node, cands) ==
    IF cands = <<>> THEN g
    ELSE AddCandidates(AddCandidate(g, current_node, Head(cands)),
                       current_node, Tail(cands))

\* dict[key] = val on an insertion-ordered dict
SetItem(dict, key, val) ==
    IF \E k \in 1..Len(dict) : dict[k][1] = key
    THEN [k \in 1..Len(dict) |-> IF dict[k][1] = key THEN <<key, val>> ELSE dict[k]]
    ELSE Append(dict, <<key, val>>)

\* the first key with the smallest value
MaxKey_Min(dict) ==
    LET k == CHOOSE i \in 1..Len(dict) :
                 /\ \A j \in 1..Len(dict) : RLe(dict[i][2], dict[j][2])
                 /\ \A j \in 1..(i - 1) : RLt(dict[i][2], dict[j][2])
    IN  dict[k][1]

\* max(z_values, key=z_values.get): the first key with the largest value
MaxKey(dict) ==
    LET k == CHOOSE i \in 1..Len(dict) :
                 /\ \A j \in 1..Len(dict) : RLe(dict[j][2], dict[i][2])
                 /\ \A j \in 1..(i - 1) : RLt(dict[j][2], dict[i][2])
    IN  dict[k][1]

\* generated instances of the exploration: two constraints, the columns of
\* x1, x2 drawn from Coef, and the two columns of the initial basis x3, x4
FamColumnsB == { << <<p, q>>, <<s, t>> >> :
                     p \in Coef, q \in Coef, s \in Coef, t \in Coef }
FamcB == <<1, 2, 0, 0>>
FamBasicB == <<3, 4>>
FamNonbasicB == <<1, 2>>

\* the state before the while loop: queue.append((initial_basic,
\* initial_nonbasic)), everything else empty
InitBfs(bv, nbv) ==
    /\ queue = << <<bv, nbv>> >>
    /\ visited = {}
    /\ node_id_map = <<>>
    /\ node_count = 0
    /\ z_values = <<>>
    /\ edge_labels = <<>>
    /\ best_node = Unset
    /\ basic_vars = Unset
    /\ nonbasic_vars = Unset
    /\ pc = "bfs"
    /\ outcome = "none"
    /\ iteration = 0
    /\ xB_values = Unset
    /\ z_row = Unset
    /\ Z_val = Unset
    /\ printed = <<>>
    /\ pivots = <<>>
    /\ full_solution = Unset
    /\ reported = Unset
    /\ IdleBB
    /\ IdleIM

\* an instance of three constraints on which the exploration reaches the
\* basis x1, x2, x3 in two row orders, x3, x1, x2 and x2, x3, x1
RowA == << <<-1, 1, 1, 0, 0>>, <<2, -1, 0, 1, 0>>, <<0, 1, 0, 0, 1>> >>
Rowb == <<2, 2, 2>>
Rowc == <<3, 1, 0, 0, 0>>
RowBasic == <<3, 4, 5>>
RowNonbasic == <<1, 2>>

InitB ==
    \/ /\ A = HardA /\ b = Hardb /\ c = Hardc
       /\ InitBfs(HardBasic, HardNonbasic)
    \/ /\ A = RowA /\ b = Rowb /\ c = Rowc
       /\ InitBfs(RowBasic, RowNonbasic)
    \/ /\ \E cols \in FamColumnsB : \E bb \in FamBasisAndb :
              /\ A = [i \in 1..2 |-> cols[i] \o bb[1][i]]
              /\ b = bb[2]
       /\ c = FamcB
       /\ InitBfs(FamBasicB, FamNonbasicB)

\* basic_vars, nonbasic_vars = queue.popleft()
Popleft ==
    /\ pc = "bfs"
    /\ queue # <<>>
    /\ basic_vars' = Head(queue)[1]
    /\ nonbasic_vars' = Head(queue)[2]

\* the pass of the loop body on the basis at the head of the queue
HeadPass == BfsPass(A, b, c, Head(queue)[1], Head(queue)[2])

\* the graph state the loop body works on, after popleft
GraphState ==
    [node_id_map |-> node_id_map, node_count |-> node_count,
     edge_labels |-> edge_labels, queue |-> Tail(queue)]

SetGraph(g) ==
    /\ node_id_map' = g.node_id_map
    /\ node_count' = g.node_count
    /\ edge_labels' = g.edge_labels
    /\ queue' = g.queue

\* the row order of the basis kept in the key
BasisKey_Ordered(bv) == bv

\* basis_key = tuple(sorted(str(v) for v in basic_vars)): the same key for
\* every row order of the same variables
BasisKey(bv) == Range(bv)

\* basis_key in visited: continue
DequeueVisited ==
    /\ Popleft
    /\ BasisKey(Head(queue)[1]) \in visited
    /\ queue' = Tail(queue)
    /\ UNCHANGED <<A, b, c, pc, outcome, visited, node_id_map, node_count,
                   z_values, edge_labels, best_node>>
    /\ UNCHANGED vars6a
    /\ UNCHANGED varsBB
    /\ UNCHANGED varsIM

\* B.inv() raises inside the try block: "except: continue"
DequeueSingular ==
    /\ Popleft
    /\ BasisKey(Head(queue)[1]) \notin visited
    /\ HeadPass.how = "except_continue"
    /\ visited' = visited \cup {BasisKey(Head(queue)[1])}
    /\ queue' = Tail(queue)
    /\ UNCHANGED <<A, b, c, pc, outcome, node_id_map, node_count,
                   z_values, edge_labels, best_node>>
    /\ UNCHANGED vars6a
    /\ UNCHANGED varsBB
    /\ UNCHANGED varsIM

\* any(val < 0 for val in xB): continue
DequeueInfeasible ==
    /\ Popleft
    /\ BasisKey(Head(queue)[1]) \notin visited
    /\ HeadPass.how = "infeasible_continue"
    /\ visited' = visited \cup {BasisKey(Head(queue)[1])}
    /\ queue' = Tail(queue)
    /\ UNCHANGED <<A, b, c, pc, outcome, node_id_map, node_count,
                   z_values, edge_labels, best_node>>
    /\ UNCHANGED vars6a
    /\ UNCHANGED varsBB
    /\ UNCHANGED varsIM

\* the node of the basis and its z_values entry; all(z <= 0): continue
ExpandOptimal ==
    /\ Popleft
    /\ BasisKey(Head(queue)[1]) \notin visited
    /\ LET p == HeadPass
           key == Range(Head(queue)[1])
       IN  /\ p.how = "optimal_continue"
           /\ visited' = visited \cup {BasisKey(Head(queue)[1])}
           /\ SetGraph(WithNode(GraphState, key))
           /\ z_values' = SetItem(z_values, key, p.Z_val)
    /\ UNCHANGED <<A, b, c, pc, outcome, best_node>>
    /\ UNCHANGED vars6a
    /\ UNCHANGED varsBB
    /\ UNCHANGED varsIM

\* the node of the basis, its z_values entry, and for every accepted
\* neighbour its node, edge, label and queue entry
ExpandNeighbours ==
    /\ Popleft
    /\ BasisKey(Head(queue)[1]) \notin visited
    /\ LET p == HeadPass
           key == Range(Head(queue)[1])
           g == WithNode(GraphState, key)
       IN  /\ p.how = "expanded"
           /\ visited' = visited \cup {BasisKey(Head(queue)[1])}
           /\ SetGraph(AddCandidates(g, g.node_id_map[key], p.candidates))
           /\ z_values' = SetItem(z_values, key, p.Z_val)
    /\ UNCHANGED <<A, b, c, pc, outcome, best_node>>
    /\ UNCHANGED vars6a
    /\ UNCHANGED varsBB
    /\ UNCHANGED varsIM

\* the queue is empty: best_node = max(z_values, key=z_values.get)
BestNode ==
    /\ pc = "bfs"
    /\ queue = <<>>
    /\ z_values # <<>>
    /\ best_node' = MaxKey(z_values)
    /\ pc' = "draw"
    /\ UNCHANGED <<A, b, c, basic_vars, nonbasic_vars, outcome, queue, visited,
                   node_id_map, node_count, z_values, edge_labels>>
    /\ UNCHANGED vars6a
    /\ UNCHANGED varsBB
    /\ UNCHANGED varsIM

\* the queue is empty and so is z_values: max() raises ValueError
EmptyZValues ==
    /\ pc = "bfs"
    /\ queue = <<>>
    /\ z_values = <<>>
    /\ pc' = "exit"
    /\ outcome' = "value_error"
    /\ UNCHANGED <<A, b, c, basic_vars, nonbasic_vars, queue, visited,
                   node_id_map, node_count, z_values, edge_labels, best_node>>
    /\ UNCHANGED vars6a
    /\ UNCHANGED varsBB
    /\ UNCHANGED varsIM

NextB ==
    \/ DequeueVisited
    \/ DequeueSingular
    \/ DequeueInfeasible
    \/ ExpandOptimal
    \/ ExpandNeighbours
    \/ BestNode
    \/ EmptyZValues

SpecB == InitB /\ [][NextB]_vars

\* the while loop has a basis to dequeue
BfsRuns == pc = "bfs" /\ queue # <<>>

\* the script is a sequential program: while the queue is not empty the
\* loop body runs (every step that changes the state is a pass of it), and
\* the statements after the loop run once it is left
FairSpecB ==
    /\ SpecB
    /\ WF_vars(BestNode)
    /\ WF_vars(EmptyZValues)
    /\ ([]<>(~BfsRuns) \/ []<><<TRUE>>_vars)

\* either script started on one of its instances
Init6 == Init \/ InitB

Next6 == Next \/ NextB

Spec6 == Init6 /\ [][Next6]_vars

\* exercise 6a run after exercise 6b on the same instance: main() of 6a
\* starts from the same A, b, c and the same initial lists, and what 6b
\* built stays as it is
StartRun ==
    /\ pc \in {"draw", "exit"}
    /\ \/ /\ A = HardA
          /\ basic_vars' = HardBasic /\ nonbasic_vars' = HardNonbasic
       \/ /\ A = RowA
          /\ basic_vars' = RowBasic /\ nonbasic_vars' = RowNonbasic
       \/ /\ A \notin {HardA, RowA}
          /\ basic_vars' = FamBasicB /\ nonbasic_vars' = FamNonbasicB
    /\ iteration' = 0
    /\ pc' = "loop"
    /\ outcome' = "none"
    /\ xB_values' = Unset
    /\ z_row' = Unset
    /\ Z_val' = Unset
    /\ printed' = <<>>
    /\ pivots' = <<>>
    /\ full_solution' = Unset
    /\ reported' = Unset
    /\ UNCHANGED <<A, b, c>>
    /\ UNCHANGED vars6b
    /\ UNCHANGED varsBB
    /\ UNCHANGED varsIM

NextBA == NextB \/ StartRun \/ Next

\* exercise 6b, then exercise 6a on the instance 6b ran on
SpecBA == InitB /\ [][NextBA]_vars

-----------------------------------------------------------------------------
(* The branch-and-bound search of HW2 exercise 5.  A, b, c hold the LP of   *)
(* solve_lp_node: maximise c * x subject to A * x <= b, x >= 0.  A branch   *)
(* constraint is the tuple <<idx, op, val>>; node "N<k>" is <<"N", k>>;   *)
(* x_sol is the sequence of the values of x1, x2, x3.  calls is the stack   *)
(* of the calls of branch_and_bound_recursive still to be made, the next    *)
(* one first; frame is the call in progress once its LP is solved; nodes    *)
(* is the sequence of the node reports printed.  pc is "bb" during the      *)
(* search and "bb_done" after main() has printed the result.                *)

\* deepest max_depth the search is run with besides the one of main()
MaxDepth == 3

\* max_depth = 20 in main()
MainMaxDepth == 20

\* 1 / 1e-5, the tolerance of get_fractional_variable_info
FracTolDen == 100000

\* None; a tuple, to be comparable with the tuples it stands in for
None == <<>>

\* node_id = f'N{node_id_counter}'
NodeId(k) == <<"N", k>>

\* float('-inf'); RLt and RLe order it below every rational
NegInf == <<-1, 0>>

\* the LP written in solve_lp_node
BBA == << <<7, 5, -1>>, <<-1, 3, 1>>, <<0, -1, 2>> >>
BBb == <<16, 10, 3>>
BBc == <<34, 29, 2>>

\* right-hand sides of the generated instances, around the one of the script
FamRhs == { <<p, q, r>> : p \in {15, 16, 17}, q \in {9, 10, 11}, r \in {2, 3, 4} }

\* the row a * x <= rhs of "x[idx - 1] <= val" or "x[idx - 1] >= val"
BranchRow(con, n) ==
    IF con[2] = "<="
    THEN <<[k \in 1..n |-> IF k = con[1] THEN 1 ELSE 0], con[3]>>
    ELSE <<[k \in 1..n |-> IF k = con[1] THEN -1 ELSE 0], -con[3]>>

\* every constraint of the model as a row a * x <= rhs: the three of the LP,
\* lowBound = 0 of every variable, and the branch constraints
LpRows(M, rhs, branch_constraints) ==
    [i \in 1..Len(M) |-> <<M[i], rhs[i]>>]
        \o [k \in 1..Len(M[1]) |-> BranchRow(<<k, ">=", 0>>, Len(M[1]))]
        \o [k \in 1..Len(branch_constraints) |->
                BranchRow(branch_constraints[k], Len(M[1]))]

\* the point where the rows i, j, k hold with equality (Cramer's rule)
Vertex(rows, t) ==
    LET M == [i \in 1..3 |-> rows[t[i]][1]]
        dt == Det(M)
    IN  [v \in 1..3 |->
            Rat(Det([i \in 1..3 |->
                        [k \in 1..3 |-> IF k = v THEN rows[t[i]][2] ELSE M[i][k]]]),
                dt)]

\* x satisfies every row
Satisfies(x, rows) ==
    \A i \in 1..Len(rows) : RLe(RDot(RVec(rows[i][1]), x), RInt(rows[i][2]))

\* the vertices of the feasible region
Vertices(rows) ==
    LET R == 1..Len(rows)
        T == { t \in R \X R \X R :
                   /\ t[1] < t[2] /\ t[2] < t[3]
                   /\ Det([i \in 1..3 |-> rows[t[i]][1]]) # 0 }
    IN  { x \in { Vertex(rows, t) : t \in T } : Satisfies(x, rows) }

\* what solve_lp_node can return: (-inf, None, False) when the feasible
\* region is empty, else (Z, x_sol, True) for an optimal vertex.  The
\* region of A is bounded, so the status is Optimal or Infeasible.
SolveLpNode(M, rhs, cost, branch_constraints) ==
    LET V == Vertices(LpRows(M, rhs, branch_constraints))
        Obj(x) == RDot(RVec(cost), x)
    IN  IF V = {} THEN { [Z |-> NegInf, x_sol |-> None, feasible |-> FALSE] }
        ELSE { [Z |-> Obj(x), x_sol |-> x, feasible |-> TRUE] :
                   x \in { v \in V : \A w \in V : RLe(Obj(w), Obj(v)) } }

\* the largest integer <= x
Floor(x) == x[1] \div x[2]

\* round(val): the nearest integer, a half going to the even one
Round(x) ==
    LET fl == Floor(x)
        twice == RSub(RMul(RInt(2), x), RInt(2 * fl))
    IN  IF RLt(twice, RInt(1)) THEN fl
        ELSE IF RLt(RInt(1), twice) THEN fl + 1
        ELSE IF fl % 2 = 0 THEN fl ELSE fl + 1

\* int(frac_val): the fraction cut off, towards 0
Trunc(x) == IF x[1] >= 0 THEN x[1] \div x[2] ELSE -((-x[1]) \div x[2])

\* no value counts as fractional
IsFractional_Off(val) == FALSE

\* abs(val - round(val)) > 1e-5
IsFractional(val) ==
    LET df == RSub(val, RInt(Round(val)))
    IN  Abs(df[1]) > df[2] \div FracTolDen

\* the last fractional variable instead of the first
FractionalVariable_Last(x_sol) ==
    IF \A i \in 1..Len(x_sol) : ~IsFractional(x_sol[i]) THEN None
    ELSE LET i == CHOOSE i \in 1..Len(x_sol) :
                      /\ IsFractional(x_sol[i])
                      /\ \A k \in (i + 1)..Len(x_sol) : ~IsFractional(x_sol[k])
         IN  <<i, x_sol[i]>>

\* get_fractional_variable_info: <<i, val>> for the first variable of
\* x1..x3 with a fractional value, None when there is none
FractionalVariable(x_sol) ==
    IF \A i \in 1..Len(x_sol) : ~IsFractional(x_sol[i]) THEN None
    ELSE LET i == CHOOSE i \in 1..Len(x_sol) :
                      /\ IsFractional(x_sol[i])
                      /\ \A k \in 1..(i - 1) : ~IsFractional(x_sol[k])
         IN  <<i, x_sol[i]>>

\* the depth test left out
AtMaxDepth_Never(depth, md) == FALSE

\* depth >= max_depth
AtMaxDepth(depth, md) == depth >= md

\* the two recursive calls of a node that branches on var_idx at frac_val,
\* in the order they are made
Children(node_id, constraints, depth, var_idx, frac_val) ==
    LET floor_val == Trunc(frac_val)
        ceil_val == floor_val + 1
    IN  << [parent_id |-> node_id,
            constraints |-> constraints \o << <<var_idx, "<=", floor_val>> >>,
            depth |-> depth + 1],
           [parent_id |-> node_id,
            constraints |-> constraints \o << <<var_idx, ">=", ceil_val>> >>,
            depth |-> depth + 1] >>

\* main(): the globals reset and the call
\* branch_and_bound_recursive(None, [], 0, max_depth) about to be made
InitSearch(md) ==
    /\ best_Z_int = NegInf
    /\ best_x_int_solution = None
    /\ node_id_counter = 0
    /\ max_depth = md
    /\ calls = << [parent_id |-> None, constraints |-> <<>>, depth |-> 0] >>
    /\ frame = Unset
    /\ nodes = <<>>
    /\ pc = "bb"
    /\ outcome = "none"
    /\ basic_vars = Unset
    /\ nonbasic_vars = Unset
    /\ iteration = 0
    /\ xB_values = Unset
    /\ z_row = Unset
    /\ Z_val = Unset
    /\ printed = <<>>
    /\ pivots = <<>>
    /\ full_solution = Unset
    /\ reported = Unset
    /\ queue = <<>>
    /\ visited = {}
    /\ node_id_map = <<>>
    /\ node_count = 0
    /\ z_values = <<>>
    /\ edge_labels = <<>>
    /\ best_node = Unset
    /\ IdleIM

InitBB ==
    /\ A = BBA
    /\ c = BBc
    /\ \/ b = BBb /\ InitSearch(MainMaxDepth)
       \/ \E rhs \in FamRhs : \E md \in 0..MaxDepth : b = rhs /\ InitSearch(md)

\* the report of the call in progress, ended with the given status
Report(status) ==
    nodes' = Append(nodes, [node_id |-> frame.node_id, parent_id |-> frame.parent_id,
                            constraints |-> frame.constraints, depth |-> frame.depth,
                            feasible |-> frame.feasible, Z |-> frame.Z,
                            x_sol |-> frame.x_sol, GUB |-> best_Z_int,
                            status |-> status])

\* the state a step of the search leaves alone
SearchFrame ==
    /\ UNCHANGED <<A, b, c, basic_vars, nonbasic_vars, pc, outcome, max_depth>>
    /\ UNCHANGED vars6a
    /\ UNCHANGED vars6b
    /\ UNCHANGED varsIM

\* a call is entered: node_id, node_id_counter += 1, solve_lp_node
EnterNode ==
    /\ pc = "bb"
    /\ frame = Unset
    /\ calls # <<>>
    /\ \E r \in SolveLpNode(A, b, c, Head(calls).constraints) :
           frame' = [node_id |-> NodeId(node_id_counter)] @@ Head(calls) @@ r
    /\ node_id_counter' = node_id_counter + 1
    /\ calls' = Tail(calls)
    /\ UNCHANGED <<best_Z_int, best_x_int_solution, nodes>>
    /\ SearchFrame

\* not feasible: return
NodeInfeasible ==
    /\ pc = "bb"
    /\ frame # Unset
    /\ ~frame.feasible
    /\ Report("infeasible")
    /\ frame' = Unset
    /\ UNCHANGED <<best_Z_int, best_x_int_solution, node_id_counter, calls>>
    /\ SearchFrame

\* Z < best_Z_int: return
NodeBound ==
    /\ pc = "bb"
    /\ frame # Unset
    /\ frame.feasible
    /\ RLt(frame.Z, best_Z_int)
    /\ Report("bound")
    /\ frame' = Unset
    /\ UNCHANGED <<best_Z_int, best_x_int_solution, node_id_counter, calls>>
    /\ SearchFrame

\* var_idx is None: the incumbent is replaced if Z > best_Z_int, return
NodeIntegral ==
    /\ pc = "bb"
    /\ frame # Unset
    /\ frame.feasible
    /\ ~RLt(frame.Z, best_Z_int)
    /\ FractionalVariable(frame.x_sol) = None
    /\ IF RLt(best_Z_int, frame.Z)
       THEN /\ best_Z_int' = frame.Z
            /\ best_x_int_solution' = frame.x_sol
       ELSE UNCHANGED <<best_Z_int, best_x_int_solution>>
    /\ Report("integral")
    /\ frame' = Unset
    /\ UNCHANGED <<node_id_counter, calls>>
    /\ SearchFrame

\* depth >= max_depth: return
NodeMaxDepth ==
    /\ pc = "bb"
    /\ frame # Unset
    /\ frame.feasible
    /\ ~RLt(frame.Z, best_Z_int)
    /\ FractionalVariable(frame.x_sol) # None
    /\ AtMaxDepth(frame.depth, max_depth)
    /\ Report("max_depth")
    /\ frame' = Unset
    /\ UNCHANGED <<best_Z_int, best_x_int_solution, node_id_counter, calls>>
    /\ SearchFrame

\* the two recursive calls, the one with x <= floor first
NodeBranch ==
    /\ pc = "bb"
    /\ frame # Unset
    /\ frame.feasible
    /\ ~RLt(frame.Z, best_Z_int)
    /\ FractionalVariable(frame.x_sol) # None
    /\ ~AtMaxDepth(frame.depth, max_depth)
    /\ LET info == FractionalVariable(frame.x_sol)
       IN  calls' = Children(frame.node_id, frame.constraints, frame.depth,
                             info[1], info[2]) \o calls
    /\ Report("branch")
    /\ frame' = Unset
    /\ UNCHANGED <<best_Z_int, best_x_int_solution, node_id_counter>>
    /\ SearchFrame

\* the root call has returned: main() prints the best integer solution or
\* that there is none
SearchDone ==
    /\ pc = "bb"
    /\ frame = Unset
    /\ calls = <<>>
    /\ pc' = "bb_done"
    /\ outcome' = (IF best_x_int_solution # None
                   THEN "integer_solution" ELSE "no_integer_solution")
    /\ UNCHANGED <<A, b, c, basic_vars, nonbasic_vars>>
    /\ UNCHANGED varsBB
    /\ UNCHANGED varsIM
    /\ UNCHANGED vars6a
    /\ UNCHANGED vars6b

NextBB ==
    \/ EnterNode
    \/ NodeInfeasible
    \/ NodeBound
    \/ NodeIntegral
    \/ NodeMaxDepth
    \/ NodeBranch
    \/ SearchDone

SpecBB == InitBB /\ [][NextBB]_vars

\* the search is one sequential program: it takes its next step whenever
\* it has one.  main() goes on when the root call has returned
\* (WF_vars(SearchDone)); while a call is pending or in progress a step of
\* the recursion is possible (a pending call can be entered, a call in
\* progress meets the condition of exactly one of the five ways to return),
\* and it is taken: weak fairness of the steps of the recursion, with their
\* enabling condition written out.
SearchRuns == pc = "bb" /\ ~(frame = Unset /\ calls = <<>>)

FairSpecBB ==
    /\ SpecBB
    /\ WF_vars(SearchDone)
    /\ ([]<>(~SearchRuns) \/ []<><<NextBB>>_vars)

-----------------------------------------------------------------------------
(* The iterative solve loop of myProject/iterative_main.py.  A Supply is    *)
(* the record of its three fields; a Destination is the record of its id,   *)
(* name, demand and satisfied.  Destinations are objects that are written   *)
(* to in place: objs is a sequence of objects, a reference is an index of   *)
(* it, and a list of destinations is a sequence of references.  Ids,        *)
(* positions in a Python list and the keys and values of id_mapping count   *)
(* from 0; the element at position p of a list is element p + 1 of the      *)
(* sequence.  The scenario and the solver are outside the loop: the         *)
(* scenario is drawn from the sets below and solve() returns any list of    *)
(* assignments the constraints of its model allow, or raises.               *)
(* solve_calls counts the calls of solve().  pc is "im" at the head of the  *)
(* while loop and "im_done" after it.                                       *)

\* max_iterations = 10
MaxIterations == 10

\* the largest number of destinations and of depots of a scenario
MaxDests == 2
MaxDepots == 1

\* the largest number of drones, each flying at most one mission in a pass
MaxDrones == 1

\* the demand of the destination and the supply of the depot of the long
\* scenario, which one drone of capacity 1 cannot deliver in max_iterations
\* passes
LongQty == MaxIterations + 1

\* Supply(food, water, medicine)
Supply(f, w, m) == [food |-> f, water |-> w, medicine |-> m]

\* Supply.total
total(s) == s.food + s.water + s.medicine

\* Supply.__add__
Supply_add(self, other) ==
    Supply(self.food + other.food, self.water + other.water,
           self.medicine + other.medicine)

Max0(x) == IF x > 0 THEN x ELSE 0

\* Supply.__sub__
Supply_sub(self, other) ==
    Supply(Max0(self.food - other.food), Max0(self.water - other.water),
           Max0(self.medicine - other.medicine))

\* new_dest = dest: the same object, no copy
deepcopy_Alias(objs, ref) == [objs |-> objs, ref |-> ref]

\* copy.deepcopy(dest): a new object with the fields of the old one
deepcopy(objs, ref) == [objs |-> Append(objs, objs[ref]), ref |-> Len(objs) + 1]

\* one pass of the for loop of create_unsatisfied_destinations_with_mapping
create_visit(st, dests, original_id) ==
    LET dest == st.objs[dests[original_id + 1]]
        remaining_demand == Supply_sub(dest.demand, dest.satisfied)
    IN  IF total(remaining_demand) > 0
        THEN LET cp == deepcopy(st.objs, dests[original_id + 1])
                 new_dest == cp.ref
             IN  [objs |-> [cp.objs EXCEPT ![new_dest] =
                               [@ EXCEPT !.id = st.new_id,
                                         !.demand = remaining_demand,
                                         !.satisfied = Supply(0, 0, 0)]],
                  unsatisfied |-> Append(st.unsatisfied, new_dest),
                  id_mapping |-> (st.new_id :> original_id) @@ st.id_mapping,
                  new_id |-> st.new_id + 1]
        ELSE st

\* the for loop over the first n destinations
RECURSIVE create_loop(_, _, _)
create_loop(objs, dests, n) ==
    IF n = 0
    THEN [objs |-> objs, unsatisfied |-> <<>>, id_mapping |-> <<>>, new_id |-> 0]
    ELSE create_visit(create_loop(objs, dests, n - 1), dests, n - 1)

\* create_unsatisfied_destinations_with_mapping(dests) on the objects objs:
\* the objects after the call, the list returned and the mapping returned
create_unsatisfied_destinations_with_mapping(objs, dests) ==
    LET st == create_loop(objs, dests, Len(dests))
    IN  [objs |-> st.objs, unsatisfied |-> st.unsatisfied, id_mapping |-> st.id_mapping]

\* the check left out
has_available_supplies_Always(depots) == TRUE

\* has_available_supplies
has_available_supplies(depots) ==
    \E i \in 1..Len(depots) : total(depots[i].supply) > 0

\* safe_update_destination: dest_list after the call
safe_update_destination(dest_list, dest_id, supply_to_add) ==
    IF 0 <= dest_id /\ dest_id < Len(dest_list)
    THEN [dest_list EXCEPT ![dest_id + 1].satisfied = Supply_add(@, supply_to_add)]
    ELSE dest_list

\* the for loop of lines 194-210 over the first n assignments: the two
\* lists of destinations and all_assignments after it
RECURSIVE update_dests(_, _, _, _, _, _)
update_dests(orig, work, all, asg, mapping, n) ==
    IF n = 0 THEN [original_dests |-> orig, working_dests |-> work, all_assignments |-> all]
    ELSE LET st == update_dests(orig, work, all, asg, mapping, n - 1)
             assignment == asg[n]
         IN  IF assignment.dest_id \in DOMAIN mapping
             THEN LET original_dest_id == mapping[assignment.dest_id]
                  IN  [original_dests |->
                           safe_update_destination(st.original_dests, original_dest_id,
                                                   assignment.supply),
                       working_dests |->
                           IF 0 <= original_dest_id
                              /\ original_dest_id < Len(st.original_dests)
                           THEN safe_update_destination(st.working_dests,
                                                        original_dest_id, assignment.supply)
                           ELSE st.working_dests,
                       all_assignments |->
                           Append(st.all_assignments,
                                  [assignment EXCEPT !.dest_id = original_dest_id])]
             ELSE st

\* update_supplies_after_assignments over the first n assignments
RECURSIVE update_supplies_after_assignments(_, _, _)
update_supplies_after_assignments(depots, asg, n) ==
    IF n = 0 THEN depots
    ELSE LET d == update_supplies_after_assignments(depots, asg, n - 1)
         IN  [d EXCEPT ![asg[n].depot_id + 1].supply = Supply_sub(@, asg[n].supply)]

\* the demands and supplies of the scenarios, and what has been delivered
\* to a destination
SupplyFamily ==
    { Supply(0, 0, 0), Supply(1, 0, 0), Supply(0, 1, 1), Supply(2, 0, 1), Supply(1, 2, 0) }

\* the capacities of the drones of the scenarios
Capacities == {1, 2}

\* self <= other in every kind
SupplyLe(self, other) ==
    /\ self.food <= other.food
    /\ self.water <= other.water
    /\ self.medicine <= other.medicine

\* the sum of the supplies of the assignments of asg that satisfy Sel
RECURSIVE SumSupply(_, _, _)
SumSupply(asg, Sel(_), n) ==
    IF n = 0 THEN Supply(0, 0, 0)
    ELSE IF Sel(asg[n]) THEN Supply_add(SumSupply(asg, Sel, n - 1), asg[n].supply)
         ELSE SumSupply(asg, Sel, n - 1)

\* the lists solve(drones, depots, dests) can return: at most one mission
\* for each drone (y > 0.5), in the order of the drones, each carrying no
\* more than the capacity of its drone, an empty load included (y = 1 with
\* every x = 0); out of no depot more than its supply; to no destination
\* more than its demand
SolveResults(drs, depots, dests) ==
    LET Missions ==
            UNION { { [drone_id |-> drs[d].id, depot_id |-> depots[i].id,
                       dest_id |-> dests[j].id, supply |-> Supply(f, w, m)] :
                          f \in 0..drs[d].capacity, w \in 0..drs[d].capacity,
                          m \in 0..drs[d].capacity } :
                    d \in 1..Len(drs), i \in 1..Len(depots), j \in 1..Len(dests) }
        Lists == UNION { [1..k -> Missions] : k \in 0..Len(drs) }
    IN  { asg \in Lists :
            /\ \A k \in 1..(Len(asg) - 1) : asg[k].drone_id < asg[k + 1].drone_id
            /\ \A k \in 1..Len(asg) :
                   total(asg[k].supply) <= drs[asg[k].drone_id + 1].capacity
            /\ \A i \in 1..Len(depots) :
                   LET From(a) == a.depot_id = depots[i].id
                   IN  SupplyLe(SumSupply(asg, From, Len(asg)), depots[i].supply)
            /\ \A j \in 1..Len(dests) :
                   LET To(a) == a.dest_id = dests[j].id
                   IN  SupplyLe(SumSupply(asg, To, Len(asg)), dests[j].demand) }

\* the destinations passed to solve() after it has returned the first n
\* missions of asg: dests[j].satisfied = dests[j].satisfied + sup for each
RECURSIVE solve_dests(_, _, _)
solve_dests(dests, asg, n) ==
    IF n = 0 THEN dests
    ELSE [solve_dests(dests, asg, n - 1) EXCEPT
             ![asg[n].dest_id + 1].satisfied = Supply_add(@, asg[n].supply)]

\* assignments before solve() has returned for the first time
Unbound == [bound |-> FALSE]

\* a destination of a scenario: nothing delivered yet
NewDestination(pos, demand) ==
    [id |-> pos, name |-> pos + 1, demand |-> demand, satisfied |-> Supply(0, 0, 0)]

\* the non-empty lists over S of at most n elements
ListsOf(S, n) == UNION { [1..k -> S] : k \in 1..n }

\* the scenario with the given capacities, supplies and demands: drones,
\* depots and destinations numbered by their position
Scenario(cap, sp, dm) ==
    [drones |-> [d \in 1..Len(cap) |-> [id |-> d - 1, capacity |-> cap[d]]],
     depots |-> [i \in 1..Len(sp) |-> [id |-> i - 1, supply |-> sp[i]]],
     dests |-> [j \in 1..Len(dm) |-> NewDestination(j - 1, dm[j])]]

\* the scenarios: one drone, one depot and one destination; several
\* destinations, or several depots, or several drones, with one unit of
\* food in each depot and one asked for by each destination; two
\* destinations that a depot with two units serves one after the other;
\* and the long scenario
Scenarios ==
    { Scenario(cap, sp, dm) :
          cap \in ListsOf(Capacities, 1), sp \in ListsOf(SupplyFamily, 1),
          dm \in ListsOf(SupplyFamily, 1) }
      \cup { Scenario(<<1>>, <<Supply(1, 0, 0)>>, dm) :
                dm \in ListsOf({Supply(1, 0, 0)}, MaxDests) }
      \cup { Scenario(<<1>>, sp, <<Supply(1, 0, 0)>>) :
                sp \in ListsOf({Supply(1, 0, 0)}, MaxDepots) }
      \cup { Scenario(cap, <<Supply(1, 0, 0)>>, <<Supply(1, 0, 0)>>) :
                cap \in ListsOf({1}, MaxDrones) }
      \cup { Scenario(<<1>>, <<Supply(2, 0, 0)>>, <<Supply(1, 0, 0), Supply(1, 0, 0)>>) }
      \cup { [drones |-> << [id |-> 0, capacity |-> 1] >>,
              depots |-> << [id |-> 0, supply |-> Supply(LongQty, 0, 0)] >>,
              dests |-> << NewDestination(0, Supply(LongQty, 0, 0)) >>] }

\* main() up to the while loop
InitIM ==
    /\ \E sc \in Scenarios :
           /\ drones = sc.drones
           /\ working_depots = sc.depots
           /\ working_dests = sc.dests
           /\ original_dests = sc.dests
    /\ all_assignments = <<>>
    /\ iteration = 1
    /\ unsatisfied_dests = Unset
    /\ id_mapping = Unset
    /\ assignments = Unbound
    /\ solve_calls = 0
    /\ pc = "im"
    /\ outcome = "none"
    /\ A = Unset
    /\ b = Unset
    /\ c = Unset
    /\ basic_vars = Unset
    /\ nonbasic_vars = Unset
    /\ xB_values = Unset
    /\ z_row = Unset
    /\ Z_val = Unset
    /\ printed = <<>>
    /\ pivots = <<>>
    /\ full_solution = Unset
    /\ reported = Unset
    /\ queue = <<>>
    /\ visited = {}
    /\ node_id_map = <<>>
    /\ node_count = 0
    /\ z_values = <<>>
    /\ edge_labels = <<>>
    /\ best_node = Unset
    /\ IdleBB

\* line 161 on working_dests: the list itself after the call, the list
\* returned and the mapping returned
Unsatisfied ==
    LET n == Len(working_dests)
        r == create_unsatisfied_destinations_with_mapping(
                 working_dests, [k \in 1..n |-> k])
    IN  [working_dests |-> SubSeq(r.objs, 1, n),
         unsatisfied_dests |-> [k \in 1..Len(r.unsatisfied) |-> r.objs[r.unsatisfied[k]]],
         id_mapping |-> r.id_mapping]

\* the state a pass of the loop leaves alone
LoopFrame ==
    /\ UNCHANGED <<A, b, c, basic_vars, nonbasic_vars>>
    /\ UNCHANGED <<xB_values, z_row, Z_val, printed, pivots, full_solution, reported>>
    /\ UNCHANGED vars6b
    /\ UNCHANGED varsBB

\* line 161 of a pass
Prepare ==
    /\ working_dests' = Unsatisfied.working_dests
    /\ unsatisfied_dests' = Unsatisfied.unsatisfied_dests
    /\ id_mapping' = Unsatisfied.id_mapping

\* iteration <= max_iterations fails: the loop ends
LoopExit ==
    /\ pc = "im"
    /\ ~(iteration <= MaxIterations)
    /\ pc' = "im_done"
    /\ outcome' = "max_iterations"
    /\ UNCHANGED iteration
    /\ UNCHANGED varsIM
    /\ LoopFrame

\* not unsatisfied_dests: break
AllSatisfied ==
    /\ pc = "im"
    /\ iteration <= MaxIterations
    /\ Unsatisfied.unsatisfied_dests = <<>>
    /\ Prepare
    /\ pc' = "im_done"
    /\ outcome' = "all_satisfied"
    /\ UNCHANGED <<iteration, working_depots, original_dests, all_assignments,
                   assignments, solve_calls, drones>>
    /\ LoopFrame

\* not has_available_supplies(working_depots): break
NoSupplies ==
    /\ pc = "im"
    /\ iteration <= MaxIterations
    /\ Unsatisfied.unsatisfied_dests # <<>>
    /\ ~has_available_supplies(working_depots)
    /\ Prepare
    /\ pc' = "im_done"
    /\ outcome' = "no_supplies"
    /\ UNCHANGED <<iteration, working_depots, original_dests, all_assignments,
                   assignments, solve_calls, drones>>
    /\ LoopFrame

\* solve() raises in a pass after the first: the handler prints the
\* assignments of the pass before and breaks
ExceptionBreak ==
    /\ pc = "im"
    /\ iteration <= MaxIterations
    /\ Unsatisfied.unsatisfied_dests # <<>>
    /\ has_available_supplies(working_depots)
    /\ assignments.bound
    /\ Prepare
    /\ solve_calls' = solve_calls + 1
    /\ pc' = "im_done"
    /\ outcome' = "exception"
    /\ UNCHANGED <<iteration, working_depots, original_dests, all_assignments,
                   assignments, drones>>
    /\ LoopFrame

\* solve() raises in the first pass: assignments is not bound yet, and the
\* handler's "if assignments:" raises UnboundLocalError out of main()
ExceptionUnbound ==
    /\ pc = "im"
    /\ iteration <= MaxIterations
    /\ Unsatisfied.unsatisfied_dests # <<>>
    /\ has_available_supplies(working_depots)
    /\ ~assignments.bound
    /\ Prepare
    /\ solve_calls' = solve_calls + 1
    /\ pc' = "im_done"
    /\ outcome' = "UnboundLocalError"
    /\ UNCHANGED <<iteration, working_depots, original_dests, all_assignments,
                   assignments, drones>>
    /\ LoopFrame

\* solve() returns no assignment: break
NoAssignments ==
    /\ pc = "im"
    /\ iteration <= MaxIterations
    /\ Unsatisfied.unsatisfied_dests # <<>>
    /\ has_available_supplies(working_depots)
    /\ <<>> \in SolveResults(drones, working_depots, Unsatisfied.unsatisfied_dests)
    /\ Prepare
    /\ solve_calls' = solve_calls + 1
    /\ assignments' = [bound |-> TRUE, list |-> <<>>]
    /\ pc' = "im_done"
    /\ outcome' = "no_assignments"
    /\ UNCHANGED <<iteration, working_depots, original_dests, all_assignments,
                   drones>>
    /\ LoopFrame

\* solve() returns assignments, having added each load to satisfied of the
\* destination it was given: the destinations and the depots are updated
\* and iteration += 1
Iterate ==
    /\ pc = "im"
    /\ iteration <= MaxIterations
    /\ Unsatisfied.unsatisfied_dests # <<>>
    /\ has_available_supplies(working_depots)
    /\ \E asg \in SolveResults(drones, working_depots, Unsatisfied.unsatisfied_dests) :
           /\ asg # <<>>
           /\ assignments' = [bound |-> TRUE, list |-> asg]
           /\ unsatisfied_dests' =
                  solve_dests(Unsatisfied.unsatisfied_dests, asg, Len(asg))
           /\ LET st == update_dests(original_dests, Unsatisfied.working_dests,
                                     all_assignments, asg, Unsatisfied.id_mapping, Len(asg))
              IN  /\ original_dests' = st.original_dests
                  /\ working_dests' = st.working_dests
                  /\ all_assignments' = st.all_assignments
           /\ working_depots' = update_supplies_after_assignments(working_depots, asg, Len(asg))
    /\ id_mapping' = Unsatisfied.id_mapping
    /\ solve_calls' = solve_calls + 1
    /\ iteration' = iteration + 1
    /\ UNCHANGED <<pc, outcome, drones>>
    /\ LoopFrame

NextIM ==
    \/ LoopExit
    \/ AllSatisfied
    \/ NoSupplies
    \/ ExceptionBreak
    \/ ExceptionUnbound
    \/ NoAssignments
    \/ Iterate

SpecIM == InitIM /\ [][NextIM]_vars

\* main() is one sequential program: it goes on after the loop when the
\* loop condition fails (WF_vars(LoopExit)), and while the condition holds
\* it goes through the next pass, which ends in exactly one of the six ways
\* a pass can end: weak fairness of the passes, with their enabling
\* condition written out (every step that changes the state is a pass).
LoopRuns == pc = "im" /\ iteration <= MaxIterations

FairSpecIM ==
    /\ SpecIM
    /\ WF_vars(LoopExit)
    /\ ([]<>(~LoopRuns) \/ []<><<TRUE>>_vars)

\* create_unsatisfied_destinations_with_mapping on its own: working_dests is
\* the list passed, original_dests what the list was before the call; any
\* list of up to MaxDests destinations, of any demand and with anything
\* delivered, numbered by position or from IdOffset on.  pc is "cu" before
\* the call and "cu_done" after it.
IdOffset == 5

DestinationLists ==
    UNION { { [j \in 1..n |-> [id |-> j - 1 + off, name |-> j,
                               demand |-> dm[j], satisfied |-> st[j]]] :
                  dm \in [1..n -> SupplyFamily], st \in [1..n -> SupplyFamily],
                  off \in {0, IdOffset} } :
            n \in 0..MaxDests }

InitCU ==
    /\ working_dests \in DestinationLists
    /\ original_dests = working_dests
    /\ unsatisfied_dests = Unset
    /\ id_mapping = Unset
    /\ working_depots = Unset
    /\ all_assignments = Unset
    /\ assignments = Unset
    /\ solve_calls = 0
    /\ drones = Unset
    /\ iteration = 0
    /\ pc = "cu"
    /\ outcome = "none"
    /\ A = Unset
    /\ b = Unset
    /\ c = Unset
    /\ basic_vars = Unset
    /\ nonbasic_vars = Unset
    /\ xB_values = Unset
    /\ z_row = Unset
    /\ Z_val = Unset
    /\ printed = <<>>
    /\ pivots = <<>>
    /\ full_solution = Unset
    /\ reported = Unset
    /\ queue = <<>>
    /\ visited = {}
    /\ node_id_map = <<>>
    /\ node_count = 0
    /\ z_values = <<>>
    /\ edge_labels = <<>>
    /\ best_node = Unset
    /\ IdleBB

\* the call
CreateUnsatisfied ==
    /\ pc = "cu"
    /\ Prepare
    /\ pc' = "cu_done"
    /\ UNCHANGED <<iteration, outcome, working_depots, original_dests, all_assignments,
                   assignments, solve_calls, drones>>
    /\ LoopFrame

NextCU == CreateUnsatisfied

SpecCU == InitCU /\ [][NextCU]_vars

-----------------------------------------------------------------------------
(* Properties of the exercise-6a loop. *)

\* the run has left the while loop
Stopped == pc # "loop"

\* the basis of the run is still the initial one and its matrix is singular
InitialBasisSingular ==
    iteration = 0 /\ ~Invertible(BasisMatrix(A, basic_vars))

\* the objective value c_B * xB of a printed tableau (the tableau shows -Z)
Objective(t) == RNeg(t.Z_val)

\* the set of variables of an ordered basis
BasisSet(t) == Range(t.basic_vars)

\* C1: with an invertible initial basis, a run that has left the loop has
\* left it as optimal, unbounded or infeasible-initial-basis, and in no
\* other way.
C1_ThreeOutcomes ==
    (Stopped /\ ~InitialBasisSingular) =>
        outcome \in {"optimal", "unbounded", "infeasible_initial_basis"}

\* the solution of the final basis: xB_values in the rows of the basic
\* variables, 0 for every other variable
BasicSolution(bv, xB, n) ==
    [v \in 1..n |->
        IF v \in Range(bv) THEN xB[CHOOSE k \in 1..Len(bv) : bv[k] = v] ELSE RInt(0)]

\* C2: when the loop stops as optimal, the reduced cost of every non-basic
\* variable with respect to the final basis is <= 0 and the z_row entry of
\* every basic variable is 0.
C2_OptimalReducedCosts ==
    outcome = "optimal" =>
        LET Binv == Inverse(BasisMatrix(A, basic_vars))
        IN  \A v \in 1..Len(c) :
                IF v \in Range(basic_vars)
                THEN z_row[v] = RInt(0)
                ELSE /\ z_row[v] = ReducedCost(Binv, A, c, basic_vars, v)
                     /\ RLe(z_row[v], RInt(0))

C2_Witness ==
    /\ outcome = "optimal"
    /\ iteration >= 2
    /\ \E v \in 1..Len(c) : RNegative(z_row[v])

\* C3: when the loop stops as optimal, the solution x rebuilt from the final
\* basis (xB_values for the basic variables, 0 elsewhere) has A * x = b and
\* x >= 0 in every component.
C3_OptimalFeasible ==
    outcome = "optimal" =>
        LET x == BasicSolution(basic_vars, xB_values, Len(c))
        IN  /\ \A i \in 1..Len(A) : RDot(RVec(A[i]), x) = RInt(b[i])
            /\ \A v \in 1..Len(c) : ~RNegative(x[v])

C3_Witness ==
    /\ outcome = "optimal"
    /\ iteration >= 1
    /\ \E i \in 1..Len(xB_values) : xB_values[i][2] > 1

\* C4: from one printed tableau to the next the objective value never
\* decreases: it grows when the minimum ratio of the pivot between them is
\* positive and stays equal when that ratio is 0.
C4_ObjectiveMonotone ==
    \A k \in 1..Len(pivots) :
        (k + 1 <= Len(printed)) =>
            LET before == Objective(printed[k])
                after == Objective(printed[k + 1])
            IN  /\ RLe(before, after)
                /\ RPos(pivots[k].min_ratio) => RLt(before, after)
                /\ pivots[k].min_ratio = RInt(0) => before = after

\* the run on the instance written in main()
HardInstance == A = HardA /\ b = Hardb /\ c = Hardc

\* the bases x5,x6,x7 -> x5,x6,x1 -> x2,x6,x1 -> x3,x6,x1
HardBases == << <<5, 6, 7>>, <<5, 6, 1>>, <<2, 6, 1>>, <<3, 6, 1>> >>

\* C5: on the instance of main() the loop makes three pivots through the
\* bases x5,x6,x7 -> x5,x6,x1 -> x2,x6,x1 -> x3,x6,x1 and stops as optimal
\* with every reduced cost <= 0 and Z = 28/3 (the tableau shows -Z).
C5_HardcodedRun ==
    HardInstance =>
        /\ iteration <= 3
        /\ basic_vars = HardBases[iteration + 1]
        /\ \A k \in 1..Len(printed) : printed[k].basic_vars = HardBases[k]
        /\ pc = "loop" =>
            /\ Len(printed) = iteration
            /\ iteration < MaxIter
            /\ ThisPass.how = (IF iteration < 3 THEN "swap" ELSE "break")
        /\ Stopped =>
            /\ outcome = "optimal"
            /\ iteration = 3
            /\ Len(printed) = 4
            /\ AllNonPositive(z_row)
            /\ printed[4].Z_val = <<-28, 3>>

C5_Witness ==
    HardInstance /\ outcome = "optimal" /\ iteration = 3 /\ Z_val = <<-28, 3>>

\* the first pass starts from a basis with a negative component of B_inv * b
InfeasibleStart ==
    /\ pc = "loop"
    /\ iteration = 0
    /\ Invertible(BasisMatrix(A, basic_vars))
    /\ \E i \in 1..Len(b) :
           RNegative(XB(Inverse(BasisMatrix(A, basic_vars)), b)[i])

\* C6: a negative component of B_inv * b for the initial basis makes the
\* first pass report the infeasible initial basis and stop with the initial
\* lists, iteration 0 and no pivot made.
C6_InfeasibleAtStart ==
    [][InfeasibleStart =>
          /\ pc' = "exit"
          /\ outcome' = "infeasible_initial_basis"
          /\ basic_vars' = basic_vars
          /\ nonbasic_vars' = nonbasic_vars
          /\ iteration' = 0
          /\ pivots' = <<>>]_vars

C6_Witness ==
    /\ outcome = "infeasible_initial_basis"
    /\ iteration = 0
    /\ pivots = <<>>
    /\ printed = <<>>
    /\ \E i \in 1..Len(xB_values) : RNegative(xB_values[i])

\* the pass in the current state reaches the ratio test and the direction
\* vector of its entering variable has no positive component
NoPositiveDirection ==
    /\ pc = "loop"
    /\ Invertible(BasisMatrix(A, basic_vars))
    /\ LET Binv == Inverse(BasisMatrix(A, basic_vars))
           z == ZRow(Binv, A, c, basic_vars)
       IN  /\ \A i \in 1..Len(b) : ~RNegative(XB(Binv, b)[i])
           /\ \E v \in 1..Len(z) : RPos(z[v])
           /\ EnteringIdx(z) <= Len(nonbasic_vars)
           /\ \A i \in 1..Len(b) :
                  ~RPos(Direction(Binv, A, nonbasic_vars[EnteringIdx(z)])[i])

\* C7: a pass whose direction vector d has d_i <= 0 in every row reports
\* unbounded and stops in the same pass: the basis is not changed and no
\* further pass starts.
C7_UnboundedStops ==
    [][NoPositiveDirection =>
          /\ pc' = "exit"
          /\ outcome' = "unbounded"
          /\ basic_vars' = basic_vars
          /\ nonbasic_vars' = nonbasic_vars
          /\ iteration' = iteration
          /\ pivots' = pivots]_vars

C7_Witness ==
    /\ outcome = "unbounded"
    /\ iteration >= 1
    /\ Len(pivots) = iteration

\* no basic feasible solution printed so far is degenerate and every pivot
\* had a positive minimum ratio
NonDegenerateRun ==
    /\ \A k \in 1..Len(printed) :
           \A i \in 1..Len(printed[k].xB_values) : RPos(printed[k].xB_values[i])
    /\ \A k \in 1..Len(pivots) : RPos(pivots[k].min_ratio)

\* C8: a run that meets no degenerate basic feasible solution visits no
\* basis twice.
C8_NoBasisTwice ==
    NonDegenerateRun =>
        \A i \in 1..Len(printed) : \A j \in 1..Len(printed) :
            i < j => BasisSet(printed[i]) # BasisSet(printed[j])

-----------------------------------------------------------------------------
(* Properties of both scripts. *)

\* the run is one of the exercise-6b exploration: its queue or its visited
\* set is non-empty from the start on
Script6b == queue # <<>> \/ visited # {}

\* the basis whose B.inv() the script evaluated last: in 6a the basis of
\* the pass that ended the loop, in 6b the dequeued basis once it is in
\* visited
InvertedLast ==
    IF Script6b
    THEN basic_vars # Unset /\ Range(basic_vars) \in visited
    ELSE Stopped

\* C10: a singular basis submatrix is surfaced as the fatal error state
\* singular_basis_error and never swallowed: in 6a when B.inv() fails in
\* the main loop, in 6b when it fails for a dequeued basis.
C10_SingularSurfaced ==
    (InvertedLast /\ ~Invertible(BasisMatrix(A, basic_vars))) =>
        outcome = "singular_basis_error"

-----------------------------------------------------------------------------
(* Properties of the pivots of the exercise-6a loop.  printed[k] is the     *)
(* tableau of the pass that made pivots[k].                                  *)

\* C11: at every pivot the variable that enters the basis is the first
\* variable in all_vars order whose reduced cost is strictly positive.
C11_FirstPositiveEnters ==
    \A k \in 1..Len(pivots) :
        LET z == printed[k].z_row
            v == pivots[k].entering_var
        IN  /\ RPos(z[v])
            /\ \A u \in 1..(v - 1) : ~RPos(z[u])

\* xB_i / d_i <= xB_j / d_j for d_i > 0 and d_j > 0
RatioLe(xB, d, i, j) == RLe(RMul(xB[i], d[j]), RMul(xB[j], d[i]))

\* C12: at every pivot the leaving row i has d_i > 0 and the smallest ratio
\* xB_i / d_i among the rows with d > 0, and among the rows that attain the
\* minimum it is the one with the smallest index.
C12_LeavingRow ==
    \A k \in 1..Len(pivots) :
        LET xB == printed[k].xB_values
            d == pivots[k].d
            i == pivots[k].exiting_idx
        IN  /\ RPos(d[i])
            /\ \A j \in 1..Len(d) : RPos(d[j]) => RatioLe(xB, d, i, j)
            /\ \A j \in 1..(i - 1) : RPos(d[j]) => ~RatioLe(xB, d, j, i)

\* a pivot with two rows tied at the minimum ratio and a pivot that passed
\* over a row with d <= 0
C12_Witness ==
    /\ \E k \in 1..Len(pivots) :
           LET xB == printed[k].xB_values
               d == pivots[k].d
               i == pivots[k].exiting_idx
           IN  \E j \in (i + 1)..Len(d) :
                   RPos(d[j]) /\ RatioLe(xB, d, j, i)
    /\ \E k \in 1..Len(pivots) :
           pivots[k].exiting_idx > 1 /\ ~RPos(pivots[k].d[1])

\* C13: a pivot changes exactly one position of the ordered basis: the
\* entry at the leaving row becomes the entering variable, every other row
\* keeps its variable.
C13_OnePositionChanges ==
    [][iteration' # iteration =>
          LET p == pivots'[Len(pivots')]
          IN  /\ Len(basic_vars') = Len(basic_vars)
              /\ basic_vars'[p.exiting_idx] = p.entering_var
              /\ basic_vars[p.exiting_idx] = p.exiting_var
              /\ p.entering_var # p.exiting_var
              /\ \A i \in 1..Len(basic_vars) :
                     i # p.exiting_idx => basic_vars'[i] = basic_vars[i]]_vars

\* a pivot at the first row after an earlier pivot at another row
C13_Witness ==
    /\ Len(pivots) >= 2
    /\ pivots[Len(pivots)].exiting_idx = 1
    /\ pivots[1].exiting_idx = 2
    /\ basic_vars[1] = pivots[Len(pivots)].entering_var

\* C14: basic_vars and nonbasic_vars are disjoint, without duplicates, of
\* sizes m and n - m, and together hold every variable exactly once.
C14_Partition ==
    ~Script6b =>
        /\ Len(basic_vars) = Len(A)
        /\ Len(nonbasic_vars) = Len(c) - Len(A)
        /\ Cardinality(Range(basic_vars)) = Len(basic_vars)
        /\ Cardinality(Range(nonbasic_vars)) = Len(nonbasic_vars)
        /\ Range(basic_vars) \cap Range(nonbasic_vars) = {}
        /\ Range(basic_vars) \cup Range(nonbasic_vars) = 1..Len(c)

\* three pivots made and the non-basic list no longer in all_vars order
C14_Witness ==
    /\ ~Script6b
    /\ iteration >= 3
    /\ \E i \in 1..(Len(nonbasic_vars) - 1) : nonbasic_vars[i] > nonbasic_vars[i + 1]

\* C15: with B_inv * b >= 0 for the initial basis, B_inv * b >= 0 at every
\* later pass, and the infeasible-initial-basis exit is not taken at an
\* iteration >= 1.
C15_StaysFeasible ==
    /\ \A k \in 1..Len(printed) :
           \A i \in 1..Len(printed[k].xB_values) : ~RNegative(printed[k].xB_values[i])
    /\ (pc = "loop" /\ iteration >= 1) => ThisPass.how # "return_infeasible"
    /\ outcome = "infeasible_initial_basis" => iteration = 0

\* a third tableau printed after two pivots with positive minimum ratio
C15_Witness ==
    /\ Len(printed) >= 3
    /\ RPos(pivots[1].min_ratio)
    /\ RPos(pivots[2].min_ratio)
    /\ \E i \in 1..Len(xB_values) : xB_values[i] # printed[1].xB_values[i]

DegenerateInstance ==
    /\ A = << <<-1, 1, 1, 1, 0>>, <<1, 1, 0, 0, 1>> >>
    /\ b = <<1, 0>>
    /\ c = Famc
    /\ ~Script6b

\* the variable that entered at pivot k is the first one, in the order of
\* all_vars, with a positive reduced cost
FirstPositiveAt(k) ==
    LET z == printed[k].z_row
        v == pivots[k].entering_var
    IN  RPos(z[v]) /\ \A u \in 1..(v - 1) : ~RPos(z[u])

\* two rows attain the minimum ratio of pivot k
TieAt(k) ==
    LET xB == printed[k].xB_values
        d == pivots[k].d
    IN  \E r \in 1..Len(d) : \E s \in 1..Len(d) :
            /\ r # s
            /\ RPos(d[r])
            /\ RPos(d[s])
            /\ xB[r][1] * d[s][1] * xB[s][2] * d[r][2]
                   = xB[s][1] * d[r][1] * xB[r][2] * d[s][2]
            /\ \A t \in 1..Len(d) :
                   RPos(d[t]) =>
                       xB[r][1] * d[t][1] * xB[t][2] * d[r][2]
                           <= xB[t][1] * d[r][1] * xB[r][2] * d[t][2]

\* the basis printed at pass i is printed again at pass j
Revisit(i, j) ==
    /\ i < j
    /\ j <= Len(printed)
    /\ j - 1 <= Len(pivots)
    /\ BasisSet(printed[i]) = BasisSet(printed[j])

RevisitNeedsLookup ==
    \A i \in 1..Len(printed) : \A j \in 1..Len(printed) :
        Revisit(i, j) => \E k \in i..(j - 1) : ~FirstPositiveAt(k)

-----------------------------------------------------------------------------
(* Properties of the branch-and-bound search of HW2 exercise 5 *)

\* val differs from the nearest integer by more than 1e-5
FarFromInteger(val) ==
    LET lo == RSub(val, RInt(Floor(val)))
        hi == RSub(RInt(1), lo)
    IN  RLt(<<1, FracTolDen>>, lo) /\ RLt(<<1, FracTolDen>>, hi)

\* the variables of x1..x3 whose value in x_sol is fractional
FractionalSet(x_sol) == { i \in 1..3 : FarFromInteger(x_sol[i]) }

\* the call in progress returns in this step
NodeReturns == frame # Unset /\ frame' = Unset

\* C18: a node that goes on to branch (its LP is feasible, its Z is not
\* below the incumbent, its solution has a fractional variable and its depth
\* is below max_depth) creates exactly two children, and children are
\* created by such a node only.  With v the lowest-indexed variable of
\* x1..x3 whose value differs from the nearest integer by more than 1e-5,
\* the first child's constraint list is the parent's list extended by
\* (v <= floor(value)) and the second child's is the parent's list extended
\* by (v >= floor(value) + 1): the parent's list is the same for both and in
\* the parent's report, so it was not modified.
C18_BranchingRule ==
    [][ /\ ( /\ NodeReturns
             /\ frame.feasible
             /\ ~RLt(frame.Z, best_Z_int)
             /\ FractionalSet(frame.x_sol) # {}
             /\ frame.depth < max_depth )
            => Len(calls') = Len(calls) + 2
        /\ Len(calls') > Len(calls) =>
            /\ NodeReturns
            /\ frame.feasible
            /\ FractionalSet(frame.x_sol) # {}
            /\ LET F == FractionalSet(frame.x_sol)
                   v == CHOOSE i \in F : \A k \in F : i <= k
                   fl == Floor(frame.x_sol[v])
               IN  /\ Len(calls') = Len(calls) + 2
                   /\ SubSeq(calls', 3, Len(calls')) = calls
                   /\ calls'[1].constraints = frame.constraints \o << <<v, "<=", fl>> >>
                   /\ calls'[2].constraints = frame.constraints \o << <<v, ">=", fl + 1>> >>
                   /\ calls'[1].parent_id = frame.node_id
                   /\ calls'[2].parent_id = frame.node_id
                   /\ nodes'[Len(nodes')].node_id = frame.node_id
                   /\ nodes'[Len(nodes')].constraints = frame.constraints
      ]_vars

\* a node below the root with more than one fractional variable, the lowest
\* not being x1, has branched and its two children are still to be solved
C18_Witness ==
    /\ nodes # <<>>
    /\ Len(calls) >= 2
    /\ LET n == nodes[Len(nodes)]
       IN  /\ n.status = "branch"
           /\ n.constraints # <<>>
           /\ Cardinality(FractionalSet(n.x_sol)) >= 2
           /\ 1 \notin FractionalSet(n.x_sol)
           /\ calls[1].parent_id = n.node_id
           /\ calls[2].parent_id = n.node_id

\* the reported nodes whose LP is feasible and whose solution is integral
\* in x1..x3
IntegralNodes ==
    { k \in DOMAIN nodes : nodes[k].feasible /\ FractionalSet(nodes[k].x_sol) = {} }

\* best_Z_int is the maximum Z over the integral feasible nodes reached and
\* best_x_int_solution the solution of one that attains it; with no such
\* node both are as main() set them
IncumbentIsBest ==
    IF IntegralNodes = {}
    THEN best_Z_int = NegInf /\ best_x_int_solution = None
    ELSE /\ \A k \in IntegralNodes : RLe(nodes[k].Z, best_Z_int)
         /\ \E k \in IntegralNodes :
                nodes[k].Z = best_Z_int /\ nodes[k].x_sol = best_x_int_solution

\* C19: best_Z_int never decreases; it changes only when a node returns
\* whose LP is feasible, whose solution is integral in x1..x3 and whose Z is
\* strictly greater than the incumbent, and then Z and the node's solution
\* become the incumbent; when the search has ended best_Z_int is the maximum
\* Z over the integral feasible nodes reached and best_x_int_solution is the
\* solution of a node attaining it.
C19_Incumbent ==
    [][ /\ RLe(best_Z_int, best_Z_int')
        /\ (best_Z_int' # best_Z_int \/ best_x_int_solution' # best_x_int_solution) =>
              /\ NodeReturns
              /\ frame.feasible
              /\ FractionalSet(frame.x_sol) = {}
              /\ RLt(best_Z_int, frame.Z)
              /\ best_Z_int' = frame.Z
              /\ best_x_int_solution' = frame.x_sol
        /\ (pc # "bb_done" /\ pc' = "bb_done") =>
              /\ IncumbentIsBest
              /\ UNCHANGED <<nodes, best_Z_int, best_x_int_solution>>
        /\ pc = "bb_done" => pc' = "bb_done"
      ]_vars

\* the search has ended after the incumbent was replaced by a better one,
\* and a fractional node with a larger Z than the final incumbent was reached
C19_Witness ==
    /\ pc = "bb_done"
    /\ \E j, k \in IntegralNodes :
           /\ j < k
           /\ nodes[k].GUB = nodes[j].Z
           /\ RLt(nodes[j].Z, nodes[k].Z)
           /\ best_Z_int = nodes[k].Z
           /\ best_x_int_solution = nodes[k].x_sol
    /\ \E k \in DOMAIN nodes :
           /\ nodes[k].feasible
           /\ FractionalSet(nodes[k].x_sol) # {}
           /\ RLt(best_Z_int, nodes[k].Z)

\* the calls made so far and to be made: reported, in progress, pending
Depths ==
    { nodes[k].depth : k \in DOMAIN nodes }
        \cup { calls[k].depth : k \in DOMAIN calls }
        \cup (IF frame = Unset THEN {} ELSE {frame.depth})

\* the ids given so far, in the order given
IdsGiven ==
    [k \in DOMAIN nodes |-> nodes[k].node_id]
        \o (IF frame = Unset THEN <<>> ELSE <<frame.node_id>>)

\* C20: a node whose LP is infeasible, whose Z is below best_Z_int, whose
\* solution is integral or whose depth has reached max_depth returns without
\* creating a child; no call is ever made at a depth greater than max_depth;
\* no two nodes have the same id; and the search terminates.
C20_PruningAndTermination ==
    /\ [][ /\ ( /\ NodeReturns
                 /\ \/ ~frame.feasible
                    \/ RLt(frame.Z, best_Z_int)
                    \/ FractionalSet(frame.x_sol) = {}
                    \/ frame.depth >= max_depth )
               => calls' = calls
            /\ \A d \in Depths' : d <= max_depth
            /\ \A j, k \in DOMAIN IdsGiven' : j # k => IdsGiven'[j] # IdsGiven'[k]
          ]_vars
    /\ <>(pc = "bb_done")

\* a search that has ended after a node of each kind returned without
\* children, one of them at depth max_depth
C20_Witness ==
    /\ pc = "bb_done"
    /\ \E k \in DOMAIN nodes : ~nodes[k].feasible
    /\ \E k \in DOMAIN nodes : nodes[k].feasible /\ RLt(nodes[k].Z, nodes[k].GUB)
    /\ \E k \in IntegralNodes : ~RLt(nodes[k].Z, nodes[k].GUB)
    /\ \E k \in DOMAIN nodes :
           /\ nodes[k].feasible
           /\ ~RLt(nodes[k].Z, nodes[k].GUB)
           /\ FractionalSet(nodes[k].x_sol) # {}
           /\ nodes[k].depth = max_depth

-----------------------------------------------------------------------------
(* Properties of the iterative solve loop of myProject/iterative_main.py *)

\* no destination of working_dests has remaining demand
NoRemainingDemand ==
    \A j \in 1..Len(working_dests) :
        /\ working_dests[j].satisfied.food >= working_dests[j].demand.food
        /\ working_dests[j].satisfied.water >= working_dests[j].demand.water
        /\ working_dests[j].satisfied.medicine >= working_dests[j].demand.medicine

\* no depot of working_depots has any supply left
NoDepotSupply ==
    \A i \in 1..Len(working_depots) :
        /\ working_depots[i].supply.food = 0
        /\ working_depots[i].supply.water = 0
        /\ working_depots[i].supply.medicine = 0

\* C21: solve() is called at most max_iterations = 10 times; every pass of
\* the while loop either increments iteration or leaves the loop; a pass
\* that finds no destination with remaining demand or no depot with supply
\* leaves the loop without calling solve(), and a pass in which solve()
\* returns no assignment or raises leaves the loop; and the loop always
\* terminates.
C21_LoopTerminates ==
    /\ [][ /\ solve_calls' <= MaxIterations
           /\ solve_calls' \in {solve_calls, solve_calls + 1}
           /\ pc = "im" =>
                 \/ pc' = "im" /\ iteration' = iteration + 1
                 \/ pc' = "im_done" /\ iteration' = iteration
           /\ (pc = "im" /\ (NoRemainingDemand \/ NoDepotSupply)) =>
                 pc' = "im_done" /\ solve_calls' = solve_calls
           /\ (pc = "im" /\ solve_calls' # solve_calls
                 /\ \/ outcome' \in {"exception", "UnboundLocalError"}
                    \/ assignments'.bound /\ assignments'.list = <<>>) =>
                 pc' = "im_done"
           /\ (pc = "im" /\ pc' = "im") =>
                 /\ solve_calls' = solve_calls + 1
                 /\ assignments'.bound /\ assignments'.list # <<>>
         ]_vars
    /\ <>(pc = "im_done")

\* the loop has ended because iteration passed max_iterations, after
\* max_iterations calls of solve() and with demand and supply remaining
C21_Witness ==
    /\ pc = "im_done"
    /\ outcome = "max_iterations"
    /\ iteration = MaxIterations + 1
    /\ solve_calls = MaxIterations
    /\ ~NoRemainingDemand
    /\ ~NoDepotSupply

\* demand minus satisfied of destination d, each component floored at 0
Remaining(d) ==
    [food |-> IF d.demand.food > d.satisfied.food
              THEN d.demand.food - d.satisfied.food ELSE 0,
     water |-> IF d.demand.water > d.satisfied.water
               THEN d.demand.water - d.satisfied.water ELSE 0,
     medicine |-> IF d.demand.medicine > d.satisfied.medicine
                  THEN d.demand.medicine - d.satisfied.medicine ELSE 0]

\* the positions (from 1) of the destinations of the input whose remaining
\* demand has a positive total
UnsatisfiedPositions ==
    { p \in 1..Len(original_dests) :
        LET r == Remaining(original_dests[p])
        IN  r.food + r.water + r.medicine > 0 }

\* C22: create_unsatisfied_destinations_with_mapping returns exactly the
\* destinations of its input whose remaining demand has a positive total, in
\* input order, as copies with the new ids 0..k-1, demand set to the
\* remaining demand and satisfied reset to zero, and a mapping that sends
\* each new id to the position (from 0) of that destination in the input;
\* the input destinations are not modified.
C22_UnsatisfiedDestinations ==
    pc = "cu_done" =>
        /\ Len(unsatisfied_dests) = Cardinality(UnsatisfiedPositions)
        /\ DOMAIN id_mapping = 0..(Len(unsatisfied_dests) - 1)
        /\ \A p \in UnsatisfiedPositions :
               LET new_id == Cardinality({ q \in UnsatisfiedPositions : q < p })
               IN  /\ unsatisfied_dests[new_id + 1] =
                          [id |-> new_id, name |-> original_dests[p].name,
                           demand |-> Remaining(original_dests[p]),
                           satisfied |-> [food |-> 0, water |-> 0, medicine |-> 0]]
                   /\ id_mapping[new_id] = p - 1
        /\ working_dests = original_dests

\* the call was made on a list whose first destination is covered, with more
\* delivered than demanded of one kind, and whose second destination is not
\* covered although more than demanded was delivered of one kind
C22_Witness ==
    /\ pc = "cu_done"
    /\ Len(original_dests) = 2
    /\ UnsatisfiedPositions = {2}
    /\ original_dests[1].satisfied.food > original_dests[1].demand.food
    /\ original_dests[2].satisfied.water > original_dests[2].demand.water
    /\ original_dests[2].id # 0
    /\ id_mapping[0] = 1

-----------------------------------------------------------------------------
(* The exercise-6a run and the exercise-6b graph on the instance of the     *)
(* scripts                                                                  *)

\* C23: on the instance of main(), at every pivot entering_idx, found by
\* scanning z_row over all_vars, is an index of the 4-element list
\* nonbasic_vars, and nonbasic_vars[entering_idx] is the variable
\* all_vars[entering_idx]; so the variable that enters the basis is
\* non-basic and is the one whose reduced cost was found positive.
C23_HardcodedEnteringIndex ==
    [][ (HardInstance /\ Len(pivots') = Len(pivots) + 1) =>
            LET p == pivots'[Len(pivots')]
            IN  /\ Len(nonbasic_vars) = 4
                /\ p.entering_idx \in 1..Len(nonbasic_vars)
                /\ nonbasic_vars[p.entering_idx] = p.entering_idx
                /\ p.entering_var = p.entering_idx
                /\ p.entering_var \notin Range(basic_vars)
                /\ p.entering_var \in Range(basic_vars')
                /\ RPos(z_row'[p.entering_var])
                /\ \A u \in 1..(p.entering_var - 1) : ~RPos(z_row'[u])
      ]_vars

\* the third pivot of the run on the instance of main() has been made: x3
\* entered from position 2 of a list whose positions 0 and 1 had been
\* overwritten by the variables that left
C23_Witness ==
    /\ HardInstance
    /\ Len(pivots) = 3
    /\ pivots[3].entering_idx = 3
    /\ pivots[3].entering_var = 3
    /\ nonbasic_vars = <<7, 5, 2, 4>>

\* C24: on the instance of the scripts, the bases exercise 6a visits, in
\* order, are a directed path of the graph exercise 6b builds: the path
\* starts at v0, the node of the basis x5, x6, x7, every step from a basis
\* to the next is an edge of the graph, and the path ends at the node 6b
\* highlights as best; at that node every reduced cost is <= 0, no edge
\* leaves it, and its objective value is the optimum 6a reports.
C24_RunIsPathInGraph ==
    (HardInstance /\ pc = "done") =>
        LET n == Len(printed)
            bases == [k \in 1..n |-> Range(printed[k].basic_vars)]
            node(k) == node_id_map[bases[k]]
        IN  /\ \A k \in 1..n : bases[k] \in DOMAIN node_id_map
            /\ printed[1].basic_vars = <<5, 6, 7>>
            /\ node(1) = 0
            /\ \A k \in 1..(n - 1) : <<node(k), node(k + 1)>> \in DOMAIN edge_labels
            /\ bases[n] = best_node
            /\ BfsPass(A, b, c, basic_vars, nonbasic_vars).how = "optimal_continue"
            /\ Range(basic_vars) = best_node
            /\ \A e \in DOMAIN edge_labels : e[1] # node(n)
            /\ \E k \in 1..Len(z_values) :
                   /\ z_values[k][1] = best_node
                   /\ z_values[k][2][1] * reported.Z[2]
                          = reported.Z[1] * z_values[k][2][2]

\* 6b has highlighted v5, the node of x1, x3, x6, among six nodes, and 6a
\* has then reported 28/3 after its three pivots v0 -> v1 -> v4 -> v5
C24_Witness ==
    /\ HardInstance
    /\ pc = "done"
    /\ node_count = 6
    /\ best_node = {1, 3, 6}
    /\ node_id_map[{1, 3, 6}] = 5
    /\ Len(pivots) = 3
    /\ [k \in 1..Len(printed) |-> node_id_map[Range(printed[k].basic_vars)]]
           = <<0, 1, 4, 5>>
    /\ reported.Z[1] * 3 = 28 * reported.Z[2]

\* the basis set has its entry in z_values: the pass on it went past the
\* singular and infeasible tests and on to the generation of its neighbours
Expanded(key) == \E k \in 1..Len(z_values) : z_values[k][1] = key

\* C25: the breadth-first exploration of exercise 6b expands each basis,
\* taken as the set of its variables whatever their row order, at most once:
\* when a basis whose set was expanded before is dequeued again, the pass
\* only removes it from the queue and leaves the graph, z_values and visited
\* as they were; a basis that is not yet in visited is put there by the
\* pass that dequeues it; and the queue eventually becomes empty, so the
\* exploration terminates.
C25_ExpandedOnce ==
    /\ [][ (pc = "bfs" /\ queue # <<>>) =>
               /\ queue' # queue
               /\ Expanded(Range(Head(queue)[1])) =>
                      /\ queue' = Tail(queue)
                      /\ UNCHANGED <<node_id_map, node_count, edge_labels,
                                     z_values, visited>>
               /\ visited \subseteq visited'
               /\ Cardinality(visited') <= Cardinality(visited) + 1
               /\ Cardinality(visited') = Cardinality(visited) + 1 =>
                      /\ ~Expanded(Range(Head(queue)[1]))
                      /\ \A k \in 1..Len(z_values') :
                             \/ k <= Len(z_values) /\ z_values'[k][1] = z_values[k][1]
                             \/ /\ k = Len(z_values) + 1
                                /\ z_values'[k][1] = Range(Head(queue)[1])
         ]_vars
    /\ <>(queue = <<>> /\ pc # "bfs")

\* on the instance of three constraints the basis x1, x2, x3 was expanded
\* from one row order and is at the head of the queue again in the other
C25_Witness ==
    /\ A = RowA
    /\ pc = "bfs"
    /\ queue # <<>>
    /\ Head(queue)[1] \in {<<3, 1, 2>>, <<2, 3, 1>>}
    /\ Expanded({1, 2, 3})
    /\ {1, 2, 3} \in visited
    /\ \E e \in DOMAIN edge_labels :
           /\ e[2] = node_id_map[{1, 2, 3}]
           /\ e[1] # node_id_map[{1, 2, 3}]

\* the variables of a basis set as a list, in all_vars order
RECURSIVE SortedBasis(_)
SortedBasis(S) ==
    IF S = {} THEN <<>>
    ELSE LET v == CHOOSE u \in S : \A w \in S : u <= w
         IN  <<v>> \o SortedBasis(S \ {v})

\* the basis set is an invertible basis with B^-1 b >= 0
FeasibleBasis(key) ==
    LET B == BasisMatrix(A, SortedBasis(key))
    IN  /\ Cardinality(key) = Len(b)
        /\ Invertible(B)
        /\ ~AnyNegative(XB(Inverse(B), b))

\* no two basis sets share a node, and the names in use are
\* v0 .. v(node_count - 1)
NamesInUse ==
    /\ \A k1 \in DOMAIN node_id_map : \A k2 \in DOMAIN node_id_map :
           node_id_map[k1] = node_id_map[k2] => k1 = k2
    /\ {node_id_map[key] : key \in DOMAIN node_id_map} = 0..(node_count - 1)

\* the basis sets a pass meets, in the order it meets them: the dequeued
\* basis, then its accepted neighbours
Discovered(p, bv) ==
    <<Range(bv)>> \o
        (IF p.how = "expanded"
         THEN [k \in 1..Len(p.candidates) |-> Range(p.candidates[k].new_basic)]
         ELSE <<>>)

\* C26: at every point of the exploration of exercise 6b every node of the
\* graph is the set of an invertible basis with B^-1 b >= 0, distinct nodes
\* are distinct basis sets, and the names are v0, v1, ... without gaps in
\* the order of first discovery: a node keeps its name, and the basis sets
\* a pass meets for the first time take the next names in the order the
\* pass meets them.
C26_GraphNodes ==
    /\ NamesInUse
    /\ \A key \in DOMAIN node_id_map : FeasibleBasis(key)
    /\ [][ /\ NamesInUse'
           /\ \A key \in DOMAIN node_id_map : FeasibleBasis(key)
           /\ \A key \in DOMAIN node_id_map' \ DOMAIN node_id_map :
                  A' = A /\ b' = b /\ FeasibleBasis(key)
           /\ \A key \in DOMAIN node_id_map :
                  /\ key \in DOMAIN node_id_map'
                  /\ node_id_map'[key] = node_id_map[key]
           /\ node_count' >= node_count
           /\ (pc = "bfs" /\ queue # <<>> /\ node_count' > node_count) =>
                  LET d == Discovered(HeadPass, Head(queue)[1])
                      First(key) == CHOOSE k \in 1..Len(d) :
                                        d[k] = key /\ \A j \in 1..(k - 1) : d[j] # key
                      new == DOMAIN node_id_map' \ DOMAIN node_id_map
                  IN  /\ new \subseteq Range(d)
                      /\ \A k1 \in new : \A k2 \in new :
                             First(k1) < First(k2) =>
                                 node_id_map'[k1] < node_id_map'[k2]
         ]_vars

\* on the instance of the script the pass on v1 has met x1, x2, x6 and
\* x1, x3, x6 for the first time and named them v4 and v5, after v2 and v3
\* that the pass on v0 had named
C26_Witness ==
    /\ HardInstance
    /\ pc = "bfs"
    /\ node_count = 6
    /\ Len(z_values) = 2
    /\ node_id_map[{2, 6, 7}] = 2
    /\ node_id_map[{3, 6, 7}] = 3
    /\ node_id_map[{1, 2, 6}] = 4
    /\ node_id_map[{1, 3, 6}] = 5

====
